---------------------------- MODULE Spec2Model ----------------------------
(***************************************************************************)
(* A model of the OCR normalization pipeline of the Judge-Assistant        *)
(* repository (src/OCR): the image preprocessor (preprocessor.py), the     *)
(* recognition adapter (engine.py), the text correction chain              *)
(* (postprocessor.py), the document assembler and the batch orchestrator   *)
(* (ocr_pipeline.py); and of the workflow of one turn of the Supervisor    *)
(* (src/Supervisor: graph.py and the nodes).                               *)
(*                                                                         *)
(* Representation.  A character is its Unicode code point (a natural       *)
(* number), a text is a sequence of characters, so that the character      *)
(* ranges and translation tables of the source are computed as the source  *)
(* computes them.  A confidence is a floating-point number counted in      *)
(* hundredths (0.60 is 60) and written as a fraction in lowest terms; the  *)
(* arithmetic on confidences rounds each result to the nearest number of   *)
(* MantissaBits significant bits, ties to even, as Python's float does     *)
(* with 53 bits.                                                           *)
(*                                                                         *)
(* The module holds one specification per component, all over the same     *)
(* variables; a component's specification leaves the variables of the      *)
(* other components at their idle values.                                  *)
(***************************************************************************)
EXTENDS Integers, Sequences, FiniteSets, TLC

VARIABLES
    pc,                 \* position of the operation under way
    text,               \* normalize_arabic: the text handed in
    normalized,         \* normalize_arabic(text)
    renormalized,       \* normalize_arabic(normalize_arabic(text))
    dictionary_file,    \* dictionaries/legal_arabic.txt: whether it exists, and its lines
    legal_dictionary,   \* postprocessor._legal_dictionary: whether set, and the cached terms
    entry,              \* who calls dictionary_correct: "direct" or "postprocess_page"
    word,               \* dictionary_correct: the word handed in
    dict_result,        \* dictionary_correct: the word returned
    lines,              \* merge_split_lines: the lines handed in
    merged,             \* merge_split_lines: the list accumulated so far
    cursor,             \* merge_split_lines / process_batch: index of the next item
    page_result,        \* postprocess_page: the page handed in
    corrected_page,     \* postprocess_page: the page returned
    dict_calls,         \* postprocess_page: <<line, word>> places dictionary_correct was called for
    pages,              \* postprocess_document_pages: the pages handed in
    cleaned_pages,      \* postprocess_document_pages: the pages returned
    file_paths,         \* process_batch: the documents handed in
    results,            \* process_batch: the results accumulated so far
    images,             \* run_ocr: the page images handed in
    ocr_outcome,        \* run_ocr: whether it raised, and the page results returned
    engine,             \* engine._engine and the engine objects it has referred to
    config,             \* the module-level settings of config.py that calls override
    args,               \* a function called on its own: the arguments handed in
    returned            \* a function called on its own: the value returned

vars == <<pc, text, normalized, renormalized, dictionary_file, legal_dictionary,
          entry, word, dict_result, lines, merged, cursor, page_result,
          corrected_page, dict_calls, pages, cleaned_pages, file_paths,
          results, images, ocr_outcome, engine, config, args, returned>>

normVars  == <<text, normalized, renormalized>>
dictVars  == <<dictionary_file, legal_dictionary, entry, word, dict_result>>
mergeVars == <<lines, merged>>
pageVars  == <<page_result, corrected_page, dict_calls>>
docVars   == <<pages, cleaned_pages>>
batchVars == <<file_paths, results, images, ocr_outcome, engine>>
callVars  == <<args, returned>>

None == "None"

(* A file of the disk: one that is not there has no lines.                 *)
MissingFile == [exists |-> FALSE, lines |-> {}]
File(ls)    == [exists |-> TRUE, lines |-> ls]

(* postprocessor._legal_dictionary: None, or a set of terms.               *)
NoDictionary  == [loaded |-> FALSE, terms |-> {}]
Dictionary(d) == [loaded |-> TRUE, terms |-> d]

-----------------------------------------------------------------------------
(* Characters: the code points the source names, and those of its inputs.  *)

TAB                == 9
NEWLINE            == 10
SP                 == 32
EXCLAMATION        == 33
HASH               == 35
COMMA              == 44
DOT                == 46
DIGIT_ZERO         == 48
DIGIT_NINE         == 57
COLON              == 58
LATIN_X            == 120
ARABIC_RANGE_FIRST == 1536     \* U+0600
ARABIC_COMMA       == 1548     \* U+060C
ARABIC_SEMICOLON   == 1563     \* U+061B
ARABIC_QUESTION    == 1567     \* U+061F
ALEF_MADDA         == 1570     \* U+0622
ALEF_HAMZA_ABOVE   == 1571     \* U+0623
WAW_HAMZA          == 1572     \* U+0624
ALEF_HAMZA_BELOW   == 1573     \* U+0625
YEH_HAMZA          == 1574     \* U+0626
ALEF               == 1575     \* U+0627
BEH                == 1576     \* U+0628
TEH_MARBUTA        == 1577     \* U+0629
HAH                == 1581     \* U+062D
DAL                == 1583     \* U+062F
AIN                == 1593     \* U+0639
TATWEEL            == 1600     \* U+0640
KAF                == 1603     \* U+0643
LAM                == 1604     \* U+0644
MEEM               == 1605     \* U+0645
HEH                == 1607     \* U+0647
WAW                == 1608     \* U+0648
ALEF_MAKSURA       == 1609     \* U+0649
YEH                == 1610     \* U+064A
MADDA_ABOVE        == 1619     \* U+0653, combining class 230
HAMZA_ABOVE        == 1620     \* U+0654, combining class 230
HAMZA_BELOW        == 1621     \* U+0655, combining class 220
ARABIC_INDIC_ZERO  == 1632     \* U+0660
ARABIC_INDIC_NINE  == 1641     \* U+0669
ALEF_WASLA         == 1649     \* U+0671
ARABIC_RANGE_LAST  == 1791     \* U+06FF
ZWSP               == 8203     \* U+200B
ZWNJ               == 8204     \* U+200C
ZWJ                == 8205     \* U+200D
LRM                == 8206     \* U+200E
RLM                == 8207     \* U+200F
BOM                == 65279    \* U+FEFF

(* Python's str.isspace for the characters of the model: what str.strip,   *)
(* str.lstrip, str.rstrip and the regular expression class \s take off.    *)
IsSpace(c) == c \in {TAB, NEWLINE, SP}

-----------------------------------------------------------------------------
(* Texts.                                                                  *)

Last(s) == s[Len(s)]

RECURSIVE Concat(_)
Concat(ss) == IF ss = <<>> THEN <<>> ELSE Head(ss) \o Concat(Tail(ss))

(* str.replace(c, repl) for a single character c.                          *)
RECURSIVE ReplaceChar(_, _, _)
ReplaceChar(t, c, repl) ==
    IF t = <<>> THEN <<>>
    ELSE (IF Head(t) = c THEN repl ELSE <<Head(t)>>) \o ReplaceChar(Tail(t), c, repl)

RECURSIVE lstrip(_)
lstrip(t) == IF t # <<>> /\ IsSpace(Head(t)) THEN lstrip(Tail(t)) ELSE t

RECURSIVE rstrip(_)
rstrip(t) ==
    IF t # <<>> /\ IsSpace(Last(t)) THEN rstrip(SubSeq(t, 1, Len(t) - 1)) ELSE t

strip(t) == lstrip(rstrip(t))

(* sep.join(texts)                                                         *)
RECURSIVE Join(_, _)
Join(sep, ts) ==
    IF ts = <<>> THEN <<>>
    ELSE IF Len(ts) = 1 THEN ts[1]
    ELSE ts[1] \o sep \o Join(sep, Tail(ts))

(* needle in haystack                                                      *)
Contains(haystack, needle) ==
    \E i \in 1..(Len(haystack) - Len(needle) + 1) :
        SubSeq(haystack, i, i + Len(needle) - 1) = needle

(* The texts of at most n characters over an alphabet.                     *)
TextsUpTo(alphabet, n) == UNION {[1..k -> alphabet] : k \in 0..n}

-----------------------------------------------------------------------------
(* unicodedata.normalize("NFC", text), on the characters of the model:     *)
(* canonical decomposition, canonical ordering of the combining marks,     *)
(* canonical composition.                                                  *)

CombiningClass(c) ==
    IF c \in {MADDA_ABOVE, HAMZA_ABOVE} THEN 230
    ELSE IF c = HAMZA_BELOW THEN 220
    ELSE 0

Decomposition(c) ==
    CASE c = ALEF_MADDA       -> <<ALEF, MADDA_ABOVE>>
      [] c = ALEF_HAMZA_ABOVE -> <<ALEF, HAMZA_ABOVE>>
      [] c = WAW_HAMZA        -> <<WAW, HAMZA_ABOVE>>
      [] c = ALEF_HAMZA_BELOW -> <<ALEF, HAMZA_BELOW>>
      [] c = YEH_HAMZA        -> <<YEH, HAMZA_ABOVE>>
      [] OTHER                -> <<c>>

(* The primary composite of a starter and a mark, 0 when there is none.    *)
Composite(starter, mark) ==
    CASE starter = ALEF /\ mark = MADDA_ABOVE -> ALEF_MADDA
      [] starter = ALEF /\ mark = HAMZA_ABOVE -> ALEF_HAMZA_ABOVE
      [] starter = WAW  /\ mark = HAMZA_ABOVE -> WAW_HAMZA
      [] starter = ALEF /\ mark = HAMZA_BELOW -> ALEF_HAMZA_BELOW
      [] starter = YEH  /\ mark = HAMZA_ABOVE -> YEH_HAMZA
      [] OTHER                                -> 0

RECURSIVE Decompose(_)
Decompose(t) ==
    IF t = <<>> THEN <<>> ELSE Decomposition(Head(t)) \o Decompose(Tail(t))

(* Adjacent marks out of order are exchanged until none is left.           *)
RECURSIVE CanonicalOrder(_)
CanonicalOrder(t) ==
    LET bad == {i \in 1..(Len(t) - 1) :
                   /\ CombiningClass(t[i + 1]) > 0
                   /\ CombiningClass(t[i]) > CombiningClass(t[i + 1])}
    IN  IF bad = {} THEN t
        ELSE LET i == CHOOSE j \in bad : \A k \in bad : j <= k
             IN  CanonicalOrder([t EXCEPT ![i] = t[i + 1], ![i + 1] = t[i]])

(* out: the composed prefix; st: the place in out of its last starter, 0   *)
(* when it has none.  A mark composes with the last starter unless a mark  *)
(* of the same or a higher class stands between them.                      *)
RECURSIVE ComposeFrom(_, _, _)
ComposeFrom(out, st, rest) ==
    IF rest = <<>> THEN out
    ELSE LET c       == Head(rest)
             blocked == Len(out) > st /\ CombiningClass(Last(out)) >= CombiningClass(c)
             comp    == IF st > 0 /\ CombiningClass(c) > 0 /\ ~blocked
                        THEN Composite(out[st], c) ELSE 0
         IN  IF comp # 0
             THEN ComposeFrom([out EXCEPT ![st] = comp], st, Tail(rest))
             ELSE ComposeFrom(Append(out, c),
                              IF CombiningClass(c) = 0 THEN Len(out) + 1 ELSE st,
                              Tail(rest))

NFC(t) == ComposeFrom(<<>>, 0, CanonicalOrder(Decompose(t)))

-----------------------------------------------------------------------------
(* postprocessor.normalize_arabic                                          *)

normalize_arabic(t) ==
    IF t = <<>> THEN t
    ELSE LET t1  == ReplaceChar(t, ZWSP, <<>>)
             t2  == ReplaceChar(t1, ZWNJ, <<>>)
             t3  == ReplaceChar(t2, ZWJ, <<>>)
             t4  == ReplaceChar(t3, LRM, <<>>)
             t5  == ReplaceChar(t4, RLM, <<>>)
             t6  == ReplaceChar(t5, BOM, <<>>)
             t7  == ReplaceChar(t6, ALEF_MADDA, <<ALEF>>)
             t8  == ReplaceChar(t7, ALEF_HAMZA_ABOVE, <<ALEF>>)
             t9  == ReplaceChar(t8, ALEF_HAMZA_BELOW, <<ALEF>>)
             t10 == ReplaceChar(t9, ALEF_WASLA, <<ALEF>>)
             t11 == ReplaceChar(t10, TATWEEL, <<>>)
         IN  NFC(t11)

-----------------------------------------------------------------------------
(* config.py.  The thresholds are in hundredths.  The toggles and the      *)
(* digit mode are module attributes a caller may set before a call, so     *)
(* they are part of the state.                                             *)

HIGH_CONFIDENCE_THRESHOLD   == 85
MEDIUM_CONFIDENCE_THRESHOLD == 60
MAX_LEVENSHTEIN_DISTANCE    == 2

DigitModes == {"arabic_indic", "western", "preserve"}

DefaultConfig ==
    [ENABLE_DICTIONARY_CORRECTION |-> TRUE, NORMALIZE_DIGITS |-> "arabic_indic"]

Configs ==
    [ENABLE_DICTIONARY_CORRECTION : BOOLEAN, NORMALIZE_DIGITS : DigitModes]

-----------------------------------------------------------------------------
(* postprocessor.normalize_digits: str.translate with the two tables       *)
(* _WESTERN_TO_ARABIC_INDIC and _ARABIC_INDIC_TO_WESTERN.                  *)

(* A mistaken table: the Arabic-Indic digits written from one on, zero     *)
(* last.                                                                   *)
WESTERN_TO_ARABIC_INDIC_zero_last(c) ==
    IF c \in DIGIT_ZERO..DIGIT_NINE
    THEN ARABIC_INDIC_ZERO + ((c - DIGIT_ZERO + 1) % (DIGIT_NINE - DIGIT_ZERO + 1))
    ELSE c

WESTERN_TO_ARABIC_INDIC(c) ==
    IF c \in DIGIT_ZERO..DIGIT_NINE THEN ARABIC_INDIC_ZERO + (c - DIGIT_ZERO) ELSE c

ARABIC_INDIC_TO_WESTERN(c) ==
    IF c \in ARABIC_INDIC_ZERO..ARABIC_INDIC_NINE
    THEN DIGIT_ZERO + (c - ARABIC_INDIC_ZERO) ELSE c

normalize_digits(t, mode) ==
    IF mode = "arabic_indic" THEN [i \in 1..Len(t) |-> WESTERN_TO_ARABIC_INDIC(t[i])]
    ELSE IF mode = "western" THEN [i \in 1..Len(t) |-> ARABIC_INDIC_TO_WESTERN(t[i])]
    ELSE t

-----------------------------------------------------------------------------
(* postprocessor._levenshtein_distance: the row-by-row dynamic programme.  *)
(* (The optional Levenshtein package computes the same distance.)          *)

Min3(a, b, c) == IF a <= b /\ a <= c THEN a ELSE IF b <= c THEN b ELSE c

(* The row of one character c1 of s1 (the i-th), built place by place from *)
(* the row before it; a row holds the distances to the prefixes of s2 of   *)
(* length 0..Len(s2), at the places 1..Len(s2)+1.                          *)
RECURSIVE LevenshteinRow(_, _, _, _)
LevenshteinRow(current_row, previous_row, c1, s2) ==
    IF Len(current_row) = Len(s2) + 1 THEN current_row
    ELSE LET j             == Len(current_row)
             insertions    == previous_row[j + 1] + 1
             deletions     == current_row[j] + 1
             substitutions == previous_row[j] + (IF c1 # s2[j] THEN 1 ELSE 0)
         IN  LevenshteinRow(Append(current_row, Min3(insertions, deletions, substitutions)),
                            previous_row, c1, s2)

(* "for i, c1 in enumerate(s1)": the rows after previous_row.  A row       *)
(* starts with the number of characters of s1 it has taken                 *)
(* ("current_row = [i + 1]"), so the row before tells which is next.        *)
RECURSIVE LevenshteinRows(_, _, _)
LevenshteinRows(previous_row, s1, s2) ==
    LET i == previous_row[1] + 1
    IN  IF i > Len(s1) THEN previous_row
        ELSE LevenshteinRows(LevenshteinRow(<<i>>, previous_row, s1[i], s2), s1, s2)

levenshtein_distance(s1, s2) ==
    LET a == IF Len(s1) < Len(s2) THEN s2 ELSE s1
        b == IF Len(s1) < Len(s2) THEN s1 ELSE s2
    IN  IF Len(b) = 0 THEN Len(a)
        ELSE Last(LevenshteinRows([j \in 1..(Len(b) + 1) |-> j - 1], a, b))

-----------------------------------------------------------------------------
(* postprocessor.load_legal_dictionary, reset_dictionary,                  *)
(* dictionary_correct.                                                     *)

(* A mistaken loader: every stripped line of the file is a term, the       *)
(* comments and the empty lines too.                                       *)
LoadedTerms_with_comments(file) ==
    IF ~file.exists THEN {} ELSE {strip(line) : line \in file.lines}

(* The set the loader builds from the file: the stripped lines that are    *)
(* not empty and do not start with "#"; the empty set when there is no     *)
(* file.                                                                   *)
LoadedTerms(file) ==
    IF ~file.exists THEN {}
    ELSE {strip(line) :
             line \in {l \in file.lines : strip(l) # <<>> /\ Head(strip(l)) # HASH}}

(* The value load_legal_dictionary returns, and leaves in the cache.       *)
load_legal_dictionary(cache, file) ==
    IF cache.loaded THEN cache.terms ELSE LoadedTerms(file)

(* dictionary_correct with the search started one too high                 *)
(* (best_distance = MAX_LEVENSHTEIN_DISTANCE + 2) and the final test       *)
(* dropped: an entry one step beyond the maximum is accepted.              *)
dictionary_correct_one_too_far(w, dictionary) ==
    IF dictionary = {} THEN {w}
    ELSE LET normalized_w == normalize_arabic(w)
         IN  IF normalized_w \in dictionary THEN {normalized_w}
             ELSE LET dist(d) == levenshtein_distance(normalized_w, d)
                      within  == {d \in dictionary : dist(d) < MAX_LEVENSHTEIN_DISTANCE + 2}
                      best    == {d \in within : \A e \in within : dist(d) <= dist(e)}
                  IN  IF best = {} THEN {w} ELSE best

(* The values dictionary_correct(w) can return with this dictionary.  The  *)
(* search visits a Python set, whose order is not fixed: with the strict   *)
(* comparison the entry kept is the first one visited among those at the   *)
(* least distance, which can be any of them.                               *)
dictionary_correct(w, dictionary) ==
    IF dictionary = {} THEN {w}
    ELSE LET normalized_w == normalize_arabic(w)
         IN  IF normalized_w \in dictionary THEN {normalized_w}
             ELSE LET dist(d) == levenshtein_distance(normalized_w, d)
                      within  == {d \in dictionary : dist(d) < MAX_LEVENSHTEIN_DISTANCE + 1}
                      best    == {d \in within : \A e \in within : dist(d) <= dist(e)}
                  \* "if best_match and ...": a match is a loaded term, never
                  \* the empty string, and its distance is within the maximum
                  IN  IF best = {} THEN {w} ELSE best

-----------------------------------------------------------------------------
(* postprocessor.fix_whitespace                                            *)

(* The characters of the class [،؛.,:؟!]                                    *)
PunctuationChars ==
    {ARABIC_COMMA, ARABIC_SEMICOLON, DOT, COMMA, COLON, ARABIC_QUESTION, EXCLAMATION}

(* The place of the last character of the run of whitespace that starts    *)
(* at place i.                                                             *)
RECURSIVE SpaceRunEnd(_, _)
SpaceRunEnd(t, i) ==
    IF i < Len(t) /\ IsSpace(t[i + 1]) THEN SpaceRunEnd(t, i + 1) ELSE i

(* The place of the last character of the run of [ \t] that starts at      *)
(* place i.                                                                *)
RECURSIVE BlankRunEnd(_, _)
BlankRunEnd(t, i) ==
    IF i < Len(t) /\ t[i + 1] \in {SP, TAB} THEN BlankRunEnd(t, i + 1) ELSE i

(* re.sub(r"[ \t]+", " ", text), from place i on                           *)
RECURSIVE CollapseSpacesFrom(_, _)
CollapseSpacesFrom(t, i) ==
    IF i > Len(t) THEN <<>>
    ELSE IF t[i] \in {SP, TAB}
         THEN <<SP>> \o CollapseSpacesFrom(t, BlankRunEnd(t, i) + 1)
         ELSE <<t[i]>> \o CollapseSpacesFrom(t, i + 1)

(* re.sub(r"\s+([،؛.,:؟!])", r"\1", text), from place i on: a run of        *)
(* whitespace goes when a punctuation character follows it.                *)
RECURSIVE DropSpaceBeforePunctuationFrom(_, _)
DropSpaceBeforePunctuationFrom(t, i) ==
    IF i > Len(t) THEN <<>>
    ELSE IF IsSpace(t[i])
         THEN LET e == SpaceRunEnd(t, i)
              IN  IF e < Len(t) /\ t[e + 1] \in PunctuationChars
                  THEN DropSpaceBeforePunctuationFrom(t, e + 1)
                  ELSE SubSeq(t, i, e) \o DropSpaceBeforePunctuationFrom(t, e + 1)
         ELSE <<t[i]>> \o DropSpaceBeforePunctuationFrom(t, i + 1)

fix_whitespace(t) ==
    strip(DropSpaceBeforePunctuationFrom(CollapseSpacesFrom(t, 1), 1))

-----------------------------------------------------------------------------
(* postprocessor.fix_intra_word_spaces                                     *)

(* [\u0600-\u06FF]                                                         *)
arabic_letter(c) == c \in ARABIC_RANGE_FIRST..ARABIC_RANGE_LAST

RemoveSpaces(t) == SelectSeq(t, LAMBDA c : ~IsSpace(c))

(* \s+[\u0600-\u06FF] after place p: the place of that character, 0 when    *)
(* the text does not go on so.                                             *)
NextSpacedLetter(t, p) ==
    IF p < Len(t) /\ IsSpace(t[p + 1])
    THEN LET e == SpaceRunEnd(t, p + 1)
         IN  IF e < Len(t) /\ arabic_letter(t[e + 1]) THEN e + 1 ELSE 0
    ELSE 0

(* The places of the letters of the longest chain letter (\s+ letter)*      *)
(* that starts at place p.                                                 *)
RECURSIVE SpacedChain(_, _)
SpacedChain(t, p) ==
    LET q == NextSpacedLetter(t, p)
    IN  IF q = 0 THEN <<p>> ELSE <<p>> \o SpacedChain(t, q)

(* A mistaken pattern, "{1,}" for "{2,}": two letters make a match.        *)
IntraWordMatchEnd_from_two(t, i) ==
    IF ~arabic_letter(t[i]) \/ (i > 1 /\ ~IsSpace(t[i - 1])) THEN 0
    ELSE LET chain == SpacedChain(t, i)
             ends  == {k \in 2..Len(chain) :
                          chain[k] = Len(t) \/ IsSpace(t[chain[k] + 1])}
         IN  IF ends = {} THEN 0
             ELSE chain[CHOOSE k \in ends : \A j \in ends : j <= k]

(* The place where a match of the pattern that starts at place i ends, 0   *)
(* when none starts there: the longest chain of at least three letters     *)
(* whose last letter is followed by whitespace or by the end of the text.  *)
IntraWordMatchEnd(t, i) ==
    IF ~arabic_letter(t[i]) \/ (i > 1 /\ ~IsSpace(t[i - 1])) THEN 0
    ELSE LET chain == SpacedChain(t, i)
             ends  == {k \in 3..Len(chain) :
                          chain[k] = Len(t) \/ IsSpace(t[chain[k] + 1])}
         IN  IF ends = {} THEN 0
             ELSE chain[CHOOSE k \in ends : \A j \in ends : j <= k]

RECURSIVE FixIntraWordSpacesFrom(_, _)
FixIntraWordSpacesFrom(t, i) ==
    IF i > Len(t) THEN <<>>
    ELSE LET e == IntraWordMatchEnd(t, i)
         IN  IF e # 0
             THEN RemoveSpaces(SubSeq(t, i, e)) \o FixIntraWordSpacesFrom(t, e + 1)
             ELSE <<t[i]>> \o FixIntraWordSpacesFrom(t, i + 1)

fix_intra_word_spaces(t) == FixIntraWordSpacesFrom(t, 1)

-----------------------------------------------------------------------------
(* postprocessor.validate_legal_patterns                                   *)

MADA        == <<MEEM, ALEF, DAL, TEH_MARBUTA>>                    \* article
MAHKAMA     == <<MEEM, HAH, KAF, MEEM, TEH_MARBUTA>>               \* court
PLAINTIFF   == <<ALEF, LAM, MEEM, DAL, AIN, YEH>>
DEFENDANT_1 == <<ALEF, LAM, MEEM, DAL, AIN, ALEF_MAKSURA>>
DEFENDANT_2 == <<AIN, LAM, YEH, HEH>>
DEFENDANT   == DEFENDANT_1 \o <<SP>> \o DEFENDANT_2

(* The place where a match of  l1 \s+ l2 \s+ ... ln  that starts at place  *)
(* i ends, 0 when none starts there.                                       *)
RECURSIVE SpacedMatchEnd(_, _, _)
SpacedMatchEnd(t, i, letters) ==
    IF i > Len(t) \/ t[i] # Head(letters) THEN 0
    ELSE IF Len(letters) = 1 THEN i
    ELSE IF i < Len(t) /\ IsSpace(t[i + 1])
         THEN SpacedMatchEnd(t, SpaceRunEnd(t, i + 1) + 1, Tail(letters))
         ELSE 0

(* re.sub(l1 \s+ l2 \s+ ... ln, replacement, text), from place i on        *)
RECURSIVE SubSpacedFrom(_, _, _, _)
SubSpacedFrom(t, i, letters, replacement) ==
    IF i > Len(t) THEN <<>>
    ELSE LET e == SpacedMatchEnd(t, i, letters)
         IN  IF e # 0
             THEN replacement \o SubSpacedFrom(t, e + 1, letters, replacement)
             ELSE <<t[i]>> \o SubSpacedFrom(t, i + 1, letters, replacement)

validate_legal_patterns(t) ==
    LET t1 == SubSpacedFrom(t, 1, MADA, MADA)
        t2 == SubSpacedFrom(t1, 1, MAHKAMA, MAHKAMA)
        t3 == SubSpacedFrom(t2, 1, PLAINTIFF, PLAINTIFF)
    IN  SubSpacedFrom(t3, 1, DEFENDANT_1 \o DEFENDANT_2, DEFENDANT)

-----------------------------------------------------------------------------
(* Confidences.  A confidence is a fraction num/den of hundredths in       *)
(* lowest terms.  Python's float arithmetic gives, for each sum, product   *)
(* and quotient, the exact result rounded to the nearest float, ties to    *)
(* the even significand.                                                   *)

RECURSIVE GCD(_, _)
GCD(a, b) == IF b = 0 THEN a ELSE GCD(b, a % b)

Fraction(n, d) ==
    LET g == GCD(n, d) IN IF n = 0 THEN [num |-> 0, den |-> 1]
                          ELSE [num |-> n \div g, den |-> d \div g]

Conf(hundredths) == [num |-> hundredths, den |-> 1]

(* The number of significant bits of a float.                              *)
MantissaBits == 8

(* n/d scaled by a power of two into the range of a full significand:      *)
(* <<sn, sd, k>> with sn/sd = (n/d) * 2^k and 2^(p-1) <= sn/sd < 2^p.      *)
RECURSIVE ScaleToSignificand(_, _, _)
ScaleToSignificand(sn, sd, k) ==
    IF sn >= (2 ^ MantissaBits) * sd THEN ScaleToSignificand(sn, 2 * sd, k - 1)
    ELSE IF sn < (2 ^ (MantissaBits - 1)) * sd THEN ScaleToSignificand(2 * sn, sd, k + 1)
    ELSE <<sn, sd, k>>

(* The float nearest to the fraction n/d, n >= 0 and d > 0.                *)
RoundToFloat(n, d) ==
    IF n = 0 THEN Conf(0)
    ELSE LET scaled == ScaleToSignificand(n, d, 0)
             sn     == scaled[1]
             sd     == scaled[2]
             k      == scaled[3]
             low    == sn \div sd
             rest   == sn % sd
             m      == IF 2 * rest > sd THEN low + 1
                       ELSE IF 2 * rest < sd THEN low
                       ELSE IF low % 2 = 0 THEN low ELSE low + 1
         IN  IF k >= 0 THEN Fraction(m, 2 ^ k) ELSE Fraction(m * (2 ^ (0 - k)), 1)

(* a + b, a * n and a / n of a float a, a float b and an int n             *)
FloatAdd(a, b) == RoundToFloat(a.num * b.den + b.num * a.den, a.den * b.den)

FloatMul(a, n) == RoundToFloat(a.num * n, a.den)

FloatDiv(a, n) == RoundToFloat(a.num, a.den * n)

(* (a + b) / 2                                                             *)
Mean2(a, b) == FloatDiv(FloatAdd(a, b), 2)

(* a <= b, a < b                                                           *)
ConfLE(a, b) == a.num * b.den <= b.num * a.den
ConfLT(a, b) == a.num * b.den < b.num * a.den

-----------------------------------------------------------------------------
(* schemas.py                                                              *)

(* bbox: the four corner points, top-left, top-right, bottom-right,        *)
(* bottom-left, of the box from (x1, y1) to (x2, y2).                      *)
CornerPoints(x1, y1, x2, y2) == <<<<x1, y1>>, <<x2, y1>>, <<x2, y2>>, <<x1, y2>>>>

OCRWord(t, bbox, c) == [text |-> t, bbox |-> bbox, confidence |-> c]

(* The box of a word of which only the text and the confidence matter.     *)
SampleBox == CornerPoints(0, 0, 100, 30)

OCRLine(ws, t, c) == [words |-> ws, text |-> t, confidence |-> c]

OCRPageResult(n, ls, raw, c, w, e) ==
    [page_number |-> n, lines |-> ls, raw_text |-> raw, confidence |-> c,
     warnings |-> w, has_errors |-> e]

-----------------------------------------------------------------------------
(* postprocessor.merge_split_lines                                         *)

(* U+0628, U+062A..U+062E, U+0633..U+063A, U+0641..U+0647, U+064A          *)
connecting_chars ==
    {1576} \cup (1578..1582) \cup (1587..1594) \cup (1601..1607) \cup {1610}

(* The test of the loop body without "and curr_text".                      *)
MergesInto_any_next_line(prev, line) ==
    LET prev_text == rstrip(prev.text)
    IN  prev_text # <<>> /\ Last(prev_text) \in connecting_chars

(* The test of the loop body: the line accumulated so far and the next     *)
(* line are joined.                                                        *)
MergesInto(prev, line) ==
    LET prev_text == rstrip(prev.text)
        curr_text == lstrip(line.text)
    IN  prev_text # <<>> /\ curr_text # <<>> /\ Last(prev_text) \in connecting_chars

(* One turn of the loop: the accumulated list after the next line.         *)
MergeStep(acc, line) ==
    IF MergesInto(Last(acc), line)
    THEN [acc EXCEPT ![Len(acc)] =
             OCRLine(Last(acc).words \o line.words,
                     rstrip(Last(acc).text) \o lstrip(line.text),
                     Mean2(Last(acc).confidence, line.confidence))]
    ELSE Append(acc, line)

RECURSIVE MergeLoop(_, _)
MergeLoop(acc, rest) ==
    IF rest = <<>> THEN acc ELSE MergeLoop(MergeStep(acc, Head(rest)), Tail(rest))

merge_split_lines(ls) ==
    IF Len(ls) <= 1 THEN ls ELSE MergeLoop(<<ls[1]>>, Tail(ls))

-----------------------------------------------------------------------------
(* postprocessor.postprocess_page                                          *)

(* The condition of "if (config.ENABLE_DICTIONARY_CORRECTION and           *)
(* MEDIUM <= word.confidence < HIGH)" with the bounds exchanged for        *)
(* MEDIUM < word.confidence <= HIGH.                                       *)
DictionaryApplies_band_shifted(cfg, confidence) ==
    /\ cfg.ENABLE_DICTIONARY_CORRECTION
    /\ ConfLT(Conf(MEDIUM_CONFIDENCE_THRESHOLD), confidence)
    /\ ConfLE(confidence, Conf(HIGH_CONFIDENCE_THRESHOLD))

(* "if (config.ENABLE_DICTIONARY_CORRECTION and                            *)
(*      config.MEDIUM_CONFIDENCE_THRESHOLD <= word.confidence              *)
(*      < config.HIGH_CONFIDENCE_THRESHOLD)"                               *)
DictionaryApplies(cfg, confidence) ==
    /\ cfg.ENABLE_DICTIONARY_CORRECTION
    /\ ConfLE(Conf(MEDIUM_CONFIDENCE_THRESHOLD), confidence)
    /\ ConfLT(confidence, Conf(HIGH_CONFIDENCE_THRESHOLD))

(* The values corrected_text can have for a word.                          *)
CorrectedTexts(w, cfg, dictionary) ==
    LET corrected_text ==
            normalize_digits(normalize_arabic(w.text), cfg.NORMALIZE_DIGITS)
    IN  IF DictionaryApplies(cfg, w.confidence)
        THEN dictionary_correct(corrected_text, dictionary)
        ELSE {corrected_text}

(* The places <<line, word>> of the page for which dictionary_correct is   *)
(* called.                                                                 *)
DictionaryCalls(page, cfg) ==
    {<<i, k>> \in UNION {{i} \X (1..Len(page.lines[i].words)) : i \in 1..Len(page.lines)} :
        DictionaryApplies(cfg, page.lines[i].words[k].confidence)}

(* The corrected texts the words of a line can get: one text per word.     *)
LineChoices(line, cfg, dictionary) ==
    LET candidates == UNION {CorrectedTexts(line.words[k], cfg, dictionary) :
                                k \in 1..Len(line.words)}
    IN  {ts \in [1..Len(line.words) -> candidates] :
            \A k \in 1..Len(line.words) :
                ts[k] \in CorrectedTexts(line.words[k], cfg, dictionary)}

(* The corrected texts the words of a page can get: per line, one text     *)
(* per word.                                                               *)
PageChoices(page, cfg, dictionary) ==
    LET candidates == UNION {LineChoices(page.lines[i], cfg, dictionary) :
                                i \in 1..Len(page.lines)}
    IN  {ch \in [1..Len(page.lines) -> candidates] :
            \A i \in 1..Len(page.lines) :
                ch[i] \in LineChoices(page.lines[i], cfg, dictionary)}

(* The body of "for line in page_result.lines" once the words have their   *)
(* corrected texts.                                                        *)
CorrectLine(line, corrected_texts) ==
    LET corrected_words ==
            [k \in 1..Len(line.words) |->
                OCRWord(corrected_texts[k], line.words[k].bbox, line.words[k].confidence)]
        line_text ==
            validate_legal_patterns(
                fix_intra_word_spaces(
                    fix_whitespace(Join(<<SP>>, corrected_texts))))
    IN  OCRLine(corrected_words, line_text, line.confidence)

LineTexts(ls) == [i \in 1..Len(ls) |-> ls[i].text]

(* A mistaken return: the page built anew starts without warnings and      *)
(* without errors.                                                         *)
postprocess_page_as_new_page(page, choice) ==
    LET corrected_lines ==
            merge_split_lines(
                [i \in 1..Len(page.lines) |-> CorrectLine(page.lines[i], choice[i])])
    IN  OCRPageResult(page.page_number, corrected_lines,
                      Join(<<NEWLINE>>, LineTexts(corrected_lines)),
                      page.confidence, <<>>, FALSE)

(* postprocess_page, given the corrected texts of the words.               *)
postprocess_page(page, choice) ==
    LET corrected_lines ==
            merge_split_lines(
                [i \in 1..Len(page.lines) |-> CorrectLine(page.lines[i], choice[i])])
    IN  OCRPageResult(page.page_number, corrected_lines,
                      Join(<<NEWLINE>>, LineTexts(corrected_lines)),
                      page.confidence, page.warnings, page.has_errors)

(* The dictionary cache after postprocess_page: loaded by the first call   *)
(* of dictionary_correct, when there is one.                               *)
CacheAfterPage(cache, file, page, cfg) ==
    IF DictionaryCalls(page, cfg) = {} THEN cache
    ELSE Dictionary(load_legal_dictionary(cache, file))

-----------------------------------------------------------------------------
(* The idle values of the variables of each component.                     *)

NoPage    == OCRPageResult(0, <<>>, <<>>, Conf(0), <<>>, FALSE)
NoOutcome == [raised |-> FALSE, error |-> None, page_results |-> <<>>]
NoEngine  == [created |-> FALSE, models_loaded |-> FALSE]

NormIdle  == text = <<>> /\ normalized = <<>> /\ renormalized = <<>>
DictIdle  == /\ dictionary_file = MissingFile /\ legal_dictionary = NoDictionary
             /\ entry = None /\ word = <<>> /\ dict_result = <<>>
MergeIdle == lines = <<>> /\ merged = <<>>
PageIdle  == page_result = NoPage /\ corrected_page = NoPage /\ dict_calls = {}
DocIdle   == pages = <<>> /\ cleaned_pages = <<>>
BatchIdle == /\ file_paths = <<>> /\ results = <<>> /\ images = <<>>
             /\ ocr_outcome = NoOutcome /\ engine = NoEngine
CallIdle  == args = <<>> /\ returned = <<>>

-----------------------------------------------------------------------------
(* SpecNormalize: normalize_arabic applied to a text, and applied again    *)
(* to its own result.                                                      *)

MaxTextLen == 3

NormalizeAlphabet ==
    {ALEF, ALEF_HAMZA_ABOVE, MADDA_ABOVE, HAMZA_BELOW, TATWEEL, ZWJ, MEEM}

InitNormalize ==
    /\ pc = "start"
    /\ CallIdle
    /\ text \in TextsUpTo(NormalizeAlphabet, MaxTextLen)
    /\ normalized = <<>> /\ renormalized = <<>>
    /\ DictIdle /\ MergeIdle /\ PageIdle /\ DocIdle /\ BatchIdle
    /\ cursor = 0 /\ config = DefaultConfig

NormalizeArabic ==
    /\ pc = "start"
    /\ normalized' = normalize_arabic(text)
    /\ pc' = "normalized"
    /\ UNCHANGED <<text, renormalized, dictVars, mergeVars, pageVars, docVars,
                   batchVars, cursor, config, callVars>>

NormalizeArabicAgain ==
    /\ pc = "normalized"
    /\ renormalized' = normalize_arabic(normalized)
    /\ pc' = "done"
    /\ UNCHANGED <<text, normalized, dictVars, mergeVars, pageVars, docVars,
                   batchVars, cursor, config, callVars>>

NextNormalize == NormalizeArabic \/ NormalizeArabicAgain

SpecNormalize == InitNormalize /\ [][NextNormalize]_vars

-----------------------------------------------------------------------------
(* SpecDictionary: load_legal_dictionary, reset_dictionary and             *)
(* dictionary_correct on one word.  The word comes from a direct call (as  *)
(* the tests call it) or from postprocess_page, which hands over the       *)
(* normalized, digit-normalized text of a recognized word.                 *)

MaxWordLen == 3

WordAlphabet == {ALEF, ALEF_HAMZA_ABOVE, MADDA_ABOVE, MEEM, DAL, LATIN_X}

(* The dictionary file is not part of the repository: these are the        *)
(* files the model tries.  A file is the set of its lines.                 *)
DictionaryFiles ==
    { MissingFile,
      File({}),
      File({<<HASH, MEEM>>, <<>>, <<SP>>}),
      File({<<ALEF, MEEM>>, <<MEEM, DAL>>}),
      File({<<SP, ALEF, MEEM, SP>>, <<HASH, DAL>>, <<MEEM, ALEF, DAL>>, <<>>}),
      File({<<ALEF_HAMZA_ABOVE, MEEM>>, <<DAL, DAL>>, <<ALEF, DAL>>}) }

InitDictionary ==
    /\ pc = "ready"
    /\ CallIdle
    /\ dictionary_file \in DictionaryFiles
    /\ legal_dictionary = NoDictionary
    /\ entry \in {"direct", "postprocess_page"}
    /\ config \in {c \in Configs : c.ENABLE_DICTIONARY_CORRECTION}
    /\ \E recognized \in TextsUpTo(WordAlphabet, MaxWordLen) :
           word = IF entry = "direct" THEN recognized
                  ELSE normalize_digits(normalize_arabic(recognized),
                                        config.NORMALIZE_DIGITS)
    /\ dict_result = <<>>
    /\ NormIdle /\ MergeIdle /\ PageIdle /\ DocIdle /\ BatchIdle
    /\ cursor = 0

(* Another caller loads the dictionary first.                              *)
LoadLegalDictionary ==
    /\ ~legal_dictionary.loaded
    /\ legal_dictionary' =
           Dictionary(load_legal_dictionary(legal_dictionary, dictionary_file))
    /\ UNCHANGED <<pc, dictionary_file, entry, word, dict_result, normVars,
                   mergeVars, pageVars, docVars, batchVars, cursor, config, callVars>>

ResetDictionary ==
    /\ legal_dictionary.loaded
    /\ legal_dictionary' = NoDictionary
    /\ UNCHANGED <<pc, dictionary_file, entry, word, dict_result, normVars,
                   mergeVars, pageVars, docVars, batchVars, cursor, config, callVars>>

DictionaryCorrect ==
    /\ pc = "ready"
    /\ LET dictionary == load_legal_dictionary(legal_dictionary, dictionary_file)
       IN  /\ legal_dictionary' = Dictionary(dictionary)
           /\ dict_result' \in dictionary_correct(word, dictionary)
    /\ pc' = "done"
    /\ UNCHANGED <<dictionary_file, entry, word, normVars, mergeVars, pageVars,
                   docVars, batchVars, cursor, config, callVars>>

NextDictionary == LoadLegalDictionary \/ ResetDictionary \/ DictionaryCorrect

SpecDictionary == InitDictionary /\ [][NextDictionary]_vars

-----------------------------------------------------------------------------
(* SpecMerge: the loop of merge_split_lines over the lines of a page.      *)
(* The lines are those postprocess_page hands over: each line's text has   *)
(* been through fix_whitespace, so it has no whitespace at either end (it  *)
(* may be empty), and each line has the one word the engine gave it.       *)

MaxLines == 3

MergeTexts ==
    { <<>>, <<BEH>>, <<ALEF>>, <<MEEM, DOT>>, <<ALEF, SP, LAM>> }

MergeConfidences == {Conf(60), Conf(85), Conf(100)}

MergeLineInputs ==
    {OCRLine(<<OCRWord(t, SampleBox, c)>>, t, c) : t \in MergeTexts, c \in MergeConfidences}

InitMerge ==
    /\ pc = "start"
    /\ CallIdle
    /\ lines \in UNION {[1..n -> MergeLineInputs] : n \in 0..MaxLines}
    /\ merged = <<>>
    /\ cursor = 0
    /\ NormIdle /\ DictIdle /\ PageIdle /\ DocIdle /\ BatchIdle
    /\ config = DefaultConfig

(* "if len(lines) <= 1: return lines", else "merged = [lines[0]]".         *)
MergeStart ==
    /\ pc = "start"
    /\ IF Len(lines) <= 1
       THEN merged' = lines /\ cursor' = cursor /\ pc' = "done"
       ELSE merged' = <<lines[1]>> /\ cursor' = 2 /\ pc' = "loop"
    /\ UNCHANGED <<lines, normVars, dictVars, pageVars, docVars, batchVars, config, callVars>>

(* One turn of "for line in lines[1:]"; after the last one, the return.    *)
MergeNext ==
    /\ pc = "loop"
    /\ merged' = MergeStep(merged, lines[cursor])
    /\ cursor' = cursor + 1
    /\ pc' = IF cursor = Len(lines) THEN "done" ELSE "loop"
    /\ UNCHANGED <<lines, normVars, dictVars, pageVars, docVars, batchVars, config, callVars>>

NextMerge == MergeStart \/ MergeNext

SpecMerge == InitMerge /\ [][NextMerge]_vars

-----------------------------------------------------------------------------
(* The claims.                                                             *)

(* The last character of a text that is not whitespace, 0 when it has      *)
(* none.                                                                   *)
LastNonWhitespace(t) ==
    LET places == {i \in 1..Len(t) : ~IsSpace(t[i])}
    IN  IF places = {} THEN 0
        ELSE t[CHOOSE i \in places : \A j \in places : j <= i]

(* c is the arithmetic mean of a and b: of all floats, the one nearest to  *)
(* (a + b) / 2.                                                            *)
IsMeanOf(c, a, b) ==
    c = RoundToFloat(a.num * b.den + b.num * a.den, 2 * a.den * b.den)

C6_NormalizeIdempotent ==
    pc = "done" => renormalized = normalized

(* The least distance from a word to a term of a dictionary that is not    *)
(* empty.                                                                  *)
NearestDistance(w, terms) ==
    LET ds == {levenshtein_distance(w, d) : d \in terms}
    IN  CHOOSE m \in ds : \A k \in ds : m <= k

(* C7: for a word whose normalized form is not in the dictionary (which    *)
(* is not empty), dictionary_correct returns a term at the least distance  *)
(* over the dictionary when that distance is at most the maximum, and the  *)
(* word itself when the nearest term is farther.                           *)
C7_NearestTermWithinMaximum ==
    LET terms == LoadedTerms(dictionary_file)
        n     == normalize_arabic(word)
    IN  (pc = "done" /\ terms # {} /\ n \notin terms) =>
            LET nearest == NearestDistance(n, terms)
            IN  /\ nearest <= MAX_LEVENSHTEIN_DISTANCE =>
                       /\ dict_result \in terms
                       /\ levenshtein_distance(n, dict_result) = nearest
                /\ nearest > MAX_LEVENSHTEIN_DISTANCE => dict_result = word

(* C7, witness: a word was replaced by a term at exactly the maximum       *)
(* distance.                                                               *)
C7_Witness ==
    LET terms == LoadedTerms(dictionary_file)
        n     == normalize_arabic(word)
    IN  /\ pc = "done" /\ terms # {} /\ n \notin terms
        /\ NearestDistance(n, terms) = MAX_LEVENSHTEIN_DISTANCE
        /\ dict_result \in terms /\ dict_result # word

(* C8: a word whose normalized form is a term of the dictionary is         *)
(* returned unchanged.                                                     *)
C8_DictionaryWordUnchanged ==
    (pc = "done" /\ normalize_arabic(word) \in LoadedTerms(dictionary_file))
        => dict_result = word

-----------------------------------------------------------------------------
(* SpecPage: postprocess_page on a page as the engine returns it: every    *)
(* line has one word, with the line's text (stripped, not empty) and the   *)
(* line's confidence.                                                      *)

MaxPageLines == 2

(* The letters of a term, one space between each two.                      *)
Spaced(term) == Join(<<SP>>, [i \in 1..Len(term) |-> <<term[i]>>])

RecognizedTexts ==
    { Spaced(MADA), Spaced(MAHKAMA), Spaced(PLAINTIFF),
      Spaced(DEFENDANT_1 \o DEFENDANT_2),
      <<MEEM, ALEF, DAL>>,
      <<ALEF_HAMZA_ABOVE, DIGIT_ZERO + 1>> }

RecognizedConfidences ==
    { Conf(MEDIUM_CONFIDENCE_THRESHOLD - 1), Conf(MEDIUM_CONFIDENCE_THRESHOLD),
      Conf(HIGH_CONFIDENCE_THRESHOLD - 1), Conf(HIGH_CONFIDENCE_THRESHOLD) }

RecognizedLines ==
    {OCRLine(<<OCRWord(t, SampleBox, c)>>, t, c) : t \in RecognizedTexts, c \in RecognizedConfidences}

PageDictionaryFiles ==
    { MissingFile, File({MADA, MAHKAMA, PLAINTIFF}) }

InitPage ==
    /\ pc = "start"
    /\ CallIdle
    /\ config \in Configs
    /\ dictionary_file \in PageDictionaryFiles
    /\ legal_dictionary = NoDictionary
    /\ \E ls \in UNION {[1..n -> RecognizedLines] : n \in 0..MaxPageLines} :
           page_result = OCRPageResult(1, ls, Join(<<NEWLINE>>, LineTexts(ls)),
                                       Conf(0), <<>>, FALSE)
    /\ corrected_page = NoPage
    /\ dict_calls = {}
    /\ entry = None /\ word = <<>> /\ dict_result = <<>>
    /\ NormIdle /\ MergeIdle /\ DocIdle /\ BatchIdle
    /\ cursor = 0

PostprocessPage ==
    /\ pc = "start"
    /\ LET dictionary == load_legal_dictionary(legal_dictionary, dictionary_file)
       IN  \E choice \in PageChoices(page_result, config, dictionary) :
               corrected_page' = postprocess_page(page_result, choice)
    /\ dict_calls' = DictionaryCalls(page_result, config)
    /\ legal_dictionary' =
           CacheAfterPage(legal_dictionary, dictionary_file, page_result, config)
    /\ pc' = "done"
    /\ UNCHANGED <<page_result, dictionary_file, entry, word, dict_result, normVars,
                   mergeVars, docVars, batchVars, cursor, config, callVars>>

NextPage == PostprocessPage

SpecPage == InitPage /\ [][NextPage]_vars

-----------------------------------------------------------------------------
(* Claims about postprocess_page.                                          *)

(* The words of the lines of a page, in reading order.                     *)
WordsOf(page) == Concat([i \in 1..Len(page.lines) |-> page.lines[i].words])

(* mediumThreshold <= c < highThreshold, on the hundredths themselves.     *)
InBand(c) ==
    /\ MEDIUM_CONFIDENCE_THRESHOLD * c.den <= c.num
    /\ c.num < HIGH_CONFIDENCE_THRESHOLD * c.den

(* C9: postprocess_page calls dictionary_correct for a word if and only if *)
(* dictionary correction is enabled and the word's recognition confidence  *)
(* c has mediumThreshold <= c < highThreshold; the words come out in their *)
(* order with their confidences, a word outside the band (or any word when *)
(* correction is disabled) with its normalized, digit-normalized text, a   *)
(* word in the band with what dictionary_correct returns for that text.    *)
C9_DictionaryOnlyInBand ==
    pc = "done" /\ entry = None /\ page_result # NoPage =>
        LET before == WordsOf(page_result)
            after  == WordsOf(corrected_page)
            terms  == LoadedTerms(dictionary_file)
            plain(n) == normalize_digits(normalize_arabic(before[n].text),
                                         config.NORMALIZE_DIGITS)
        IN  /\ dict_calls =
                   {<<i, k>> \in UNION {{i} \X (1..Len(page_result.lines[i].words)) :
                                           i \in 1..Len(page_result.lines)} :
                       /\ config.ENABLE_DICTIONARY_CORRECTION
                       /\ InBand(page_result.lines[i].words[k].confidence)}
            /\ legal_dictionary.loaded <=> dict_calls # {}
            /\ Len(after) = Len(before)
            /\ \A n \in 1..Len(before) :
                   /\ after[n].confidence = before[n].confidence
                   /\ IF config.ENABLE_DICTIONARY_CORRECTION /\ InBand(before[n].confidence)
                      THEN after[n].text \in dictionary_correct(plain(n), terms)
                      ELSE after[n].text = plain(n)

(* A page with a word in the band that the dictionary changes, and a word  *)
(* outside the band that the dictionary would have changed.                *)
C9_Witness ==
    /\ pc = "done" /\ entry = None
    /\ Len(page_result.lines) = 2
    /\ LET before == WordsOf(page_result)
           after  == WordsOf(corrected_page)
       IN  /\ before[1].text = before[2].text
           /\ InBand(before[1].confidence) /\ ~InBand(before[2].confidence)
           /\ after[1].text = MADA
           /\ after[2].text = <<MEEM, ALEF, DAL>>

(* The terms of validate_legal_patterns: the letters that come split, and  *)
(* the canonical form.                                                     *)
LegalTerms ==
    { [letters |-> MADA, canonical |-> MADA],
      [letters |-> MAHKAMA, canonical |-> MAHKAMA],
      [letters |-> PLAINTIFF, canonical |-> PLAINTIFF],
      [letters |-> DEFENDANT_1 \o DEFENDANT_2, canonical |-> DEFENDANT] }

(* C10: after postprocess_page, a line recognized as one of the four legal *)
(* terms split letter by letter has the term's canonical form in the text  *)
(* of a line of the page; the defendant term with its one space.           *)
C10_SplitTermsCanonical ==
    pc = "done" /\ entry = None /\ page_result # NoPage =>
        \A i \in 1..Len(page_result.lines) : \A term \in LegalTerms :
            page_result.lines[i].text = Spaced(term.letters) =>
                \E j \in 1..Len(corrected_page.lines) :
                    Contains(corrected_page.lines[j].text, term.canonical)

-----------------------------------------------------------------------------
(* postprocessor.postprocess_document_pages                                *)

(* list.count(value)                                                       *)
Count(values, value) == Cardinality({i \in 1..Len(values) : values[i] = value})

Range(values) == {values[i] : i \in 1..Len(values)}

(* "if page.lines: first_lines.append(page.lines[0].text.strip())"         *)
FirstLines(ps) ==
    LET with_lines == SelectSeq(ps, LAMBDA page : page.lines # <<>>)
    IN  [i \in 1..Len(with_lines) |-> strip(with_lines[i].lines[1].text)]

(* "if page.lines: last_lines.append(page.lines[-1].text.strip())"         *)
LastLines(ps) ==
    LET with_lines == SelectSeq(ps, LAMBDA page : page.lines # <<>>)
    IN  [i \in 1..Len(with_lines) |-> strip(Last(with_lines[i].lines).text)]

(* A mistaken test: a value on exactly half of the pages counts too.       *)
IsRepeated_from_half(line_texts, line_text, page_count) ==
    2 * Count(line_texts, line_text) >= page_count /\ line_text # <<>>

(* "threshold = len(pages) * 0.5" and                                      *)
(* "if first_lines.count(line_text) > threshold and line_text"             *)
IsRepeated(line_texts, line_text, page_count) ==
    2 * Count(line_texts, line_text) > page_count /\ line_text # <<>>

RepeatedHeaders(ps) ==
    {line_text \in Range(FirstLines(ps)) : IsRepeated(FirstLines(ps), line_text, Len(ps))}

RepeatedFooters(ps) ==
    {line_text \in Range(LastLines(ps)) : IsRepeated(LastLines(ps), line_text, Len(ps))}

(* A mistaken body: the lines are cleaned and the page keeps its raw_text. *)
CleanPage_keeping_raw_text(page, repeated_headers, repeated_footers) ==
    LET lines0 == page.lines
        lines1 == IF lines0 # <<>> /\ strip(lines0[1].text) \in repeated_headers
                  THEN Tail(lines0) ELSE lines0
        lines2 == IF lines1 # <<>> /\ strip(Last(lines1).text) \in repeated_footers
                  THEN SubSeq(lines1, 1, Len(lines1) - 1) ELSE lines1
    IN  OCRPageResult(page.page_number, lines2, page.raw_text,
                      page.confidence, page.warnings, page.has_errors)

(* A mistaken body: the page built anew has no warnings, and a page left   *)
(* without lines has confidence 0.0.                                       *)
CleanPage_resetting_metadata(page, repeated_headers, repeated_footers) ==
    LET lines0 == page.lines
        lines1 == IF lines0 # <<>> /\ strip(lines0[1].text) \in repeated_headers
                  THEN Tail(lines0) ELSE lines0
        lines2 == IF lines1 # <<>> /\ strip(Last(lines1).text) \in repeated_footers
                  THEN SubSeq(lines1, 1, Len(lines1) - 1) ELSE lines1
    IN  OCRPageResult(page.page_number, lines2, Join(<<NEWLINE>>, LineTexts(lines2)),
                      IF lines2 = <<>> THEN Conf(0) ELSE page.confidence, <<>>,
                      page.has_errors)

(* The body of "for page in pages" that builds cleaned_pages.              *)
CleanPage(page, repeated_headers, repeated_footers) ==
    LET lines0 == page.lines
        lines1 == IF lines0 # <<>> /\ strip(lines0[1].text) \in repeated_headers
                  THEN Tail(lines0) ELSE lines0
        lines2 == IF lines1 # <<>> /\ strip(Last(lines1).text) \in repeated_footers
                  THEN SubSeq(lines1, 1, Len(lines1) - 1) ELSE lines1
    IN  OCRPageResult(page.page_number, lines2, Join(<<NEWLINE>>, LineTexts(lines2)),
                      page.confidence, page.warnings, page.has_errors)

postprocess_document_pages(ps) ==
    IF Len(ps) < 3 THEN ps
    ELSE LET repeated_headers == RepeatedHeaders(ps)
             repeated_footers == RepeatedFooters(ps)
         IN  IF repeated_headers = {} /\ repeated_footers = {} THEN ps
             ELSE [i \in 1..Len(ps) |->
                      CleanPage(ps[i], repeated_headers, repeated_footers)]

-----------------------------------------------------------------------------
(* SpecDoc: postprocess_document_pages on the pages of a document, as      *)
(* postprocess_page returns them.                                          *)

MaxPages == 4

HeaderText == <<HEH, ALEF>>
FooterText == <<ARABIC_INDIC_ZERO, DOT>>
BodyText   == <<MEEM, SP, DAL>>

(* A line of a page, with its text as its one word.                        *)
PageLine(t) == OCRLine(<<OCRWord(t, SampleBox, Conf(HIGH_CONFIDENCE_THRESHOLD))>>, t,
                       Conf(HIGH_CONFIDENCE_THRESHOLD))

(* The texts of the lines of the pages the model tries: a page without     *)
(* lines, pages with a header, a footer, both or neither, a page of one    *)
(* line, and a page whose first line has an empty text.                    *)
PageShapes ==
    { <<>>,
      <<HeaderText>>,
      <<BodyText>>,
      <<HeaderText, BodyText>>,
      <<BodyText, FooterText>>,
      <<HeaderText, BodyText, FooterText>>,
      <<HeaderText, HeaderText>>,
      <<<<>>, BodyText>> }

DocumentPage(n, shape) ==
    LET ls == [i \in 1..Len(shape) |-> PageLine(shape[i])]
    IN  OCRPageResult(n, ls, Join(<<NEWLINE>>, LineTexts(ls)),
                      Conf(HIGH_CONFIDENCE_THRESHOLD), <<>>, FALSE)

InitDoc ==
    /\ pc = "pages"
    /\ CallIdle
    /\ \E shapes \in UNION {[1..n -> PageShapes] : n \in 0..MaxPages} :
           pages = [n \in 1..Len(shapes) |-> DocumentPage(n, shapes[n])]
    /\ cleaned_pages = <<>>
    /\ NormIdle /\ DictIdle /\ MergeIdle /\ PageIdle /\ BatchIdle
    /\ cursor = 0 /\ config = DefaultConfig

PostprocessDocumentPages ==
    /\ pc = "pages"
    /\ cleaned_pages' = postprocess_document_pages(pages)
    /\ pc' = "cleaned"
    /\ UNCHANGED <<pages, normVars, dictVars, mergeVars, pageVars, batchVars,
                   cursor, config, callVars>>

NextDoc == PostprocessDocumentPages

SpecDoc == InitDoc /\ [][NextDoc]_vars

-----------------------------------------------------------------------------
(* Claims about postprocess_document_pages.                                *)

(* The number of pages whose first line has the trimmed text t.            *)
HeaderPages(t) ==
    Cardinality({n \in 1..Len(pages) :
        pages[n].lines # <<>> /\ strip(pages[n].lines[1].text) = t})

(* The number of pages whose last line has the trimmed text t.             *)
FooterPages(t) ==
    Cardinality({n \in 1..Len(pages) :
        pages[n].lines # <<>> /\ strip(Last(pages[n].lines).text) = t})

(* C5: postprocess_document_pages returns as many pages; of a page it      *)
(* drops at most the first line and at most the last line, the first line  *)
(* only when the document has at least 3 pages and the line's trimmed      *)
(* text is the first line of strictly more than half of the pages, the     *)
(* last line only when the document has at least 3 pages and its trimmed   *)
(* text is the last line of strictly more than half of the pages; a        *)
(* document of fewer than 3 pages, or one in which no first-line and no    *)
(* last-line text is on more than half of the pages, comes back unchanged. *)
C5_RemovalOnlyAboveHalf ==
    pc = "cleaned" =>
        LET page_count == Len(pages)
            over_half(count) == page_count >= 3 /\ 2 * count > page_count
            texts == UNION {Range(LineTexts(pages[n].lines)) : n \in 1..page_count}
        IN  /\ Len(cleaned_pages) = page_count
            /\ \A n \in 1..page_count :
                   LET before == pages[n].lines
                       after  == cleaned_pages[n].lines
                   IN  \E header \in 0..1, footer \in 0..1 :
                           /\ after = SubSeq(before, 1 + header, Len(before) - footer)
                           /\ header = 1 =>
                                  /\ before # <<>>
                                  /\ over_half(HeaderPages(strip(before[1].text)))
                           /\ footer = 1 =>
                                  /\ before # <<>>
                                  /\ over_half(FooterPages(strip(Last(before).text)))
            /\ (\A t \in texts :
                    ~over_half(HeaderPages(strip(t))) /\ ~over_half(FooterPages(strip(t))))
                   => cleaned_pages = pages

(* Four pages: the header is on three of them and goes, the footer is on   *)
(* two of them, exactly half, and stays.                                   *)
C5_Witness ==
    /\ pc = "cleaned"
    /\ Len(pages) = 4
    /\ HeaderPages(HeaderText) = 3
    /\ FooterPages(FooterText) = 2
    /\ LineTexts(pages[1].lines) = <<HeaderText, BodyText, FooterText>>
    /\ LineTexts(cleaned_pages[1].lines) = <<BodyText, FooterText>>

-----------------------------------------------------------------------------
(* engine.py: SuryaOCREngine.process, get_engine, reset_engine, run_ocr,   *)
(* _compute_page_confidence.                                               *)

(* What the Surya predictors do with a page image: they raise, or they     *)
(* return the text lines recognized on it (none when nothing is detected). *)
(* A text line as Surya returns it; its bbox is [x1, y1, x2, y2].          *)
TextLine(t, c) == [text |-> t, confidence |-> c, bbox |-> <<10, 10, 200, 40>>]

Scan(text_lines) == [raises |-> FALSE, error |-> None, text_lines |-> text_lines]

RaisingScan(error) == [raises |-> TRUE, error |-> error, text_lines |-> <<>>]

(* sum(line.confidence * len(line.text) for line in lines): the products   *)
(* are added from the first line on, starting from acc.                    *)
RECURSIVE WeightedSum(_, _)
WeightedSum(acc, ls) ==
    IF ls = <<>> THEN acc
    ELSE WeightedSum(FloatAdd(acc, FloatMul(Head(ls).confidence, Len(Head(ls).text))),
                     Tail(ls))

(* sum(len(line.text) for line in lines)                                   *)
RECURSIVE TotalChars(_)
TotalChars(ls) == IF ls = <<>> THEN 0 ELSE Len(Head(ls).text) + TotalChars(Tail(ls))

(* The mean of the line confidences with every line weighing the same.     *)
RECURSIVE ConfidenceSum(_, _)
ConfidenceSum(acc, ls) ==
    IF ls = <<>> THEN acc ELSE ConfidenceSum(FloatAdd(acc, Head(ls).confidence), Tail(ls))

_compute_page_confidence_unweighted(ls) ==
    IF ls = <<>> THEN Conf(0)
    ELSE IF TotalChars(ls) = 0 THEN Conf(0)
    ELSE FloatDiv(ConfidenceSum(Conf(0), ls), Len(ls))

_compute_page_confidence(ls) ==
    IF ls = <<>> THEN Conf(0)
    ELSE IF TotalChars(ls) = 0 THEN Conf(0)
    ELSE LET weighted_sum == WeightedSum(Conf(0), ls)
         IN  FloatDiv(weighted_sum, TotalChars(ls))

(* "for text_line in rec_result.text_lines": a line of one word for each   *)
(* text line whose stripped text is not empty.                             *)
RECURSIVE EngineLines(_)
EngineLines(text_lines) ==
    IF text_lines = <<>> THEN <<>>
    ELSE LET t == strip(Head(text_lines).text)
             c == Head(text_lines).confidence
             bbox == Head(text_lines).bbox
             corner_points == CornerPoints(bbox[1], bbox[2], bbox[3], bbox[4])
         IN  (IF t = <<>> THEN <<>> ELSE <<OCRLine(<<OCRWord(t, corner_points, c)>>, t, c)>>)
                 \o EngineLines(Tail(text_lines))

(* The body of "for i, rec_result in enumerate(rec_results)".              *)
EnginePage(page_num, rec_result) ==
    LET ls == EngineLines(rec_result.text_lines)
    IN  OCRPageResult(page_num, ls, Join(<<NEWLINE>>, LineTexts(ls)),
                      _compute_page_confidence(ls), <<>>, FALSE)

(* SuryaOCREngine.process: the two predictor calls take all the images at  *)
(* once and nothing catches what they raise.                               *)
process(imgs) ==
    LET raising == {k \in 1..Len(imgs) : imgs[k].raises}
    IN  IF raising # {}
        THEN [raised |-> TRUE,
              error |-> imgs[CHOOSE k \in raising : \A j \in raising : k <= j].error,
              page_results |-> <<>>]
        ELSE [raised |-> FALSE, error |-> None,
              page_results |-> [k \in 1..Len(imgs) |-> EnginePage(k, imgs[k])]]

(* get_engine and, in process, _load_models                                *)
LoadedEngine == [created |-> TRUE, models_loaded |-> TRUE]

-----------------------------------------------------------------------------
(* SpecEngine: run_ocr on the page images of a document; reset_engine.     *)

MaxImages == 3

EngineError == "CUDA out of memory"

Scans ==
    { RaisingScan(EngineError),
      Scan(<<>>),
      Scan(<<TextLine(<<SP>>, Conf(HIGH_CONFIDENCE_THRESHOLD))>>),
      Scan(<<TextLine(<<SP, MEEM, ALEF, DAL>>, Conf(MEDIUM_CONFIDENCE_THRESHOLD))>>),
      Scan(<<TextLine(<<ALEF, LAM, BEH>>, Conf(HIGH_CONFIDENCE_THRESHOLD)),
             TextLine(<<DAL, DOT, SP>>, Conf(MEDIUM_CONFIDENCE_THRESHOLD - 1))>>) }

InitEngine ==
    /\ pc = "images"
    /\ CallIdle
    /\ images \in UNION {[1..n -> Scans] : n \in 0..MaxImages}
    /\ ocr_outcome = NoOutcome
    /\ engine \in {NoEngine, LoadedEngine}
    /\ file_paths = <<>> /\ results = <<>>
    /\ NormIdle /\ DictIdle /\ MergeIdle /\ PageIdle /\ DocIdle
    /\ cursor = 0 /\ config = DefaultConfig

RunOcr ==
    /\ pc = "images"
    /\ engine' = LoadedEngine
    /\ ocr_outcome' = process(images)
    /\ pc' = "recognized"
    /\ UNCHANGED <<images, file_paths, results, normVars, dictVars, mergeVars,
                   pageVars, docVars, cursor, config, callVars>>

ResetEngine ==
    /\ pc \in {"images", "recognized"}
    /\ engine.created
    /\ engine' = NoEngine
    /\ UNCHANGED <<pc, images, ocr_outcome, file_paths, results, normVars, dictVars,
                   mergeVars, pageVars, docVars, cursor, config, callVars>>

NextEngine == RunOcr \/ ResetEngine

SpecEngine == InitEngine /\ [][NextEngine]_vars

-----------------------------------------------------------------------------
(* Claims about run_ocr.                                                   *)

(* C2: when recognizing page k raises, run_ocr does not raise: it returns  *)
(* one page result per image, for page k one with no lines, raw_text "",   *)
(* confidence 0.0, has_errors true and a warning that carries the error    *)
(* text, for every other page its own result.                              *)
C2_PageFailureContained ==
    pc = "recognized" =>
        /\ ~ocr_outcome.raised
        /\ Len(ocr_outcome.page_results) = Len(images)
        /\ \A k \in 1..Len(images) :
               LET page == ocr_outcome.page_results[k]
               IN  IF images[k].raises
                   THEN /\ page.lines = <<>> /\ page.raw_text = <<>>
                        /\ page.confidence = Conf(0) /\ page.has_errors
                        /\ \E w \in Range(page.warnings) : w.detail = images[k].error
                   ELSE page = EnginePage(k, images[k])

(* C3: a page on which nothing is detected or recognized gets, from        *)
(* run_ocr, a page result with no lines, raw_text "", confidence 0.0,      *)
(* has_errors false and at least one warning.                              *)
C3_EmptyPageWarned ==
    pc = "recognized" /\ ~ocr_outcome.raised =>
        \A k \in 1..Len(images) :
            images[k].text_lines = <<>> =>
                LET page == ocr_outcome.page_results[k]
                IN  /\ page.lines = <<>> /\ page.raw_text = <<>>
                    /\ page.confidence = Conf(0) /\ ~page.has_errors
                    /\ page.warnings # <<>>

-----------------------------------------------------------------------------
(* ocr_pipeline.py: process_document, process_batch,                       *)
(* _compute_document_confidence.                                           *)

OCRDocumentResult(file_path, doc_id, ps, raw, total, c, w) ==
    [file_path |-> file_path, doc_id |-> doc_id, pages |-> ps, raw_text |-> raw,
     total_pages |-> total, overall_confidence |-> c, warnings |-> w]

(* f"Processing failed: {str(e)}"                                          *)
ProcessingFailed(error) == [text |-> "Processing failed: ", detail |-> error]

(* sum(p.confidence * len(p.raw_text) for p in pages): the products are    *)
(* added from the first page on, starting from acc.                        *)
RECURSIVE PageWeightedSum(_, _)
PageWeightedSum(acc, ps) ==
    IF ps = <<>> THEN acc
    ELSE PageWeightedSum(FloatAdd(acc, FloatMul(Head(ps).confidence,
                                                Len(Head(ps).raw_text))),
                         Tail(ps))

(* sum(len(p.raw_text) for p in pages)                                     *)
RECURSIVE PageTotalChars(_)
PageTotalChars(ps) ==
    IF ps = <<>> THEN 0 ELSE Len(Head(ps).raw_text) + PageTotalChars(Tail(ps))

(* The mean of the page confidences with every page weighing the same.     *)
_compute_document_confidence_unweighted(ps) ==
    IF ps = <<>> THEN Conf(0)
    ELSE IF PageTotalChars(ps) = 0 THEN Conf(0)
    ELSE FloatDiv(ConfidenceSum(Conf(0), ps), Len(ps))

_compute_document_confidence(ps) ==
    IF ps = <<>> THEN Conf(0)
    ELSE IF PageTotalChars(ps) = 0 THEN Conf(0)
    ELSE LET weighted_sum == PageWeightedSum(Conf(0), ps)
         IN  FloatDiv(weighted_sum, PageTotalChars(ps))

(* The lists postprocessed_pages can be after "for page_result in          *)
(* page_results": one page of postprocess_page per page result.            *)
RECURSIVE PostprocessedPages(_, _, _)
PostprocessedPages(page_results, cfg, dictionary) ==
    IF page_results = <<>> THEN {<<>>}
    ELSE LET n       == Len(page_results)
             page    == page_results[n]
             options == {postprocess_page(page, choice) :
                            choice \in PageChoices(page, cfg, dictionary)}
         IN  {Append(ps, corrected) :
                 ps \in PostprocessedPages(SubSeq(page_results, 1, n - 1), cfg, dictionary),
                 corrected \in options}

(* Steps 5 and 6 without "if page.raw_text": every page is joined.         *)
DocumentResult_joining_every_page(fp, doc_id, corrected_pages) ==
    LET all_warnings == Concat([k \in 1..Len(corrected_pages) |-> corrected_pages[k].warnings])
        postprocessed_pages == postprocess_document_pages(corrected_pages)
        combined_text ==
            Join(<<NEWLINE, NEWLINE>>,
                 [k \in 1..Len(postprocessed_pages) |-> postprocessed_pages[k].raw_text])
    IN  OCRDocumentResult(fp.path, doc_id, postprocessed_pages, combined_text,
                          Len(postprocessed_pages),
                          _compute_document_confidence(postprocessed_pages),
                          all_warnings)

(* Steps 5 and 6 of process_document.                                      *)
DocumentResult(fp, doc_id, corrected_pages) ==
    LET all_warnings == Concat([k \in 1..Len(corrected_pages) |-> corrected_pages[k].warnings])
        postprocessed_pages == postprocess_document_pages(corrected_pages)
        with_text == SelectSeq(postprocessed_pages, LAMBDA page : page.raw_text # <<>>)
        combined_text ==
            Join(<<NEWLINE, NEWLINE>>, [k \in 1..Len(with_text) |-> with_text[k].raw_text])
    IN  OCRDocumentResult(fp.path, doc_id, postprocessed_pages, combined_text,
                          Len(postprocessed_pages),
                          _compute_document_confidence(postprocessed_pages),
                          all_warnings)

(* What process_document(fp) can do: raise what load_images or run_ocr     *)
(* raises, or return a result.  A file path stands for the file behind     *)
(* it: whether load_images raises on it, and the page images it gives      *)
(* after preprocess_image.                                                 *)
process_document(fp, doc_id, cfg, dictionary) ==
    IF fp.load_error # None
    THEN {[raised |-> TRUE, error |-> fp.load_error, ran_ocr |-> FALSE,
           result |-> OCRDocumentResult(fp.path, doc_id, <<>>, <<>>, 0, Conf(0), <<>>)]}
    ELSE LET outcome == process(fp.scans)
         IN  IF outcome.raised
             THEN {[raised |-> TRUE, error |-> outcome.error, ran_ocr |-> TRUE,
                    result |-> OCRDocumentResult(fp.path, doc_id, <<>>, <<>>, 0,
                                                 Conf(0), <<>>)]}
             ELSE {[raised |-> FALSE, error |-> None, ran_ocr |-> TRUE,
                    result |-> DocumentResult(fp, doc_id, corrected_pages)] :
                       corrected_pages \in
                           PostprocessedPages(outcome.page_results, cfg, dictionary)}

(* A mistaken loop body: a document that raises is logged and left out.    *)
process_batch_step_skipping_failed(rs, fp, outcome, placeholder_id) ==
    IF outcome.raised THEN rs ELSE Append(rs, outcome.result)

(* The body of "for fp in file_paths": try, except Exception.              *)
process_batch_step(rs, fp, outcome, placeholder_id) ==
    IF outcome.raised
    THEN Append(rs, OCRDocumentResult(fp.path, placeholder_id, <<>>, <<>>, 0, Conf(0),
                                      <<ProcessingFailed(outcome.error)>>))
    ELSE Append(rs, outcome.result)

(* The dictionary cache after process_document: loaded by the first page   *)
(* with a call of dictionary_correct.                                      *)
CacheAfterDocument(cache, file, fp, outcome, cfg) ==
    IF outcome.raised THEN cache
    ELSE LET page_results == process(fp.scans).page_results
         IN  IF \A k \in 1..Len(page_results) : DictionaryCalls(page_results[k], cfg) = {}
             THEN cache
             ELSE Dictionary(load_legal_dictionary(cache, file))

-----------------------------------------------------------------------------
(* SpecBatch: process_batch on a list of file paths.                       *)

MaxDocuments == 3

FileError == "File not found: missing.png"

Document(path, load_error, scans) ==
    [path |-> path, load_error |-> load_error, scans |-> scans]

ReportPage(body) ==
    Scan(<<TextLine(HeaderText, Conf(HIGH_CONFIDENCE_THRESHOLD)),
           TextLine(body, Conf(HIGH_CONFIDENCE_THRESHOLD))>>)

(* The files the model tries: one that load_images refuses, one on which   *)
(* recognition raises, a page without text, a page with a word the         *)
(* dictionary corrects, and three pages with the same first line.          *)
Documents ==
    { Document("missing.png", FileError, <<>>),
      Document("damaged.png", None, <<RaisingScan(EngineError)>>),
      Document("blank.png", None, <<Scan(<<>>)>>),
      Document("article.png", None,
               <<Scan(<<TextLine(<<SP, MEEM, ALEF, DAL>>,
                                 Conf(MEDIUM_CONFIDENCE_THRESHOLD))>>)>>),
      Document("report.pdf", None,
               <<ReportPage(<<MEEM>>), ReportPage(<<DAL>>), ReportPage(<<MEEM, DAL>>)>>) }

(* str(uuid.uuid4())[:8]                                                   *)
DocIds == {"1b9d6bcd", "6ec0bd7f"}

InitBatch ==
    /\ pc = "batch"
    /\ CallIdle
    /\ file_paths \in UNION {[1..n -> Documents] : n \in 0..MaxDocuments}
    /\ results = <<>>
    /\ cursor = 0
    /\ images = <<>> /\ ocr_outcome = NoOutcome /\ engine = NoEngine
    /\ dictionary_file \in PageDictionaryFiles
    /\ legal_dictionary = NoDictionary
    /\ entry = None /\ word = <<>> /\ dict_result = <<>>
    /\ NormIdle /\ MergeIdle /\ PageIdle /\ DocIdle
    /\ config = DefaultConfig

(* One turn of "for fp in file_paths".                                     *)
ProcessBatchStep ==
    /\ pc = "batch"
    /\ cursor < Len(file_paths)
    /\ LET fp == file_paths[cursor + 1]
           dictionary == load_legal_dictionary(legal_dictionary, dictionary_file)
       IN  \E doc_id \in DocIds, placeholder_id \in DocIds :
           \E outcome \in process_document(fp, doc_id, config, dictionary) :
               /\ results' = process_batch_step(results, fp, outcome, placeholder_id)
               /\ engine' = IF outcome.ran_ocr THEN LoadedEngine ELSE engine
               /\ legal_dictionary' =
                      CacheAfterDocument(legal_dictionary, dictionary_file, fp,
                                         outcome, config)
    /\ cursor' = cursor + 1
    /\ UNCHANGED <<pc, file_paths, images, ocr_outcome, dictionary_file, entry, word,
                   dict_result, normVars, mergeVars, pageVars, docVars, config, callVars>>

(* "return results"                                                        *)
ProcessBatchReturn ==
    /\ pc = "batch"
    /\ cursor = Len(file_paths)
    /\ pc' = "returned"
    /\ UNCHANGED <<file_paths, results, cursor, images, ocr_outcome, engine, dictVars,
                   normVars, mergeVars, pageVars, docVars, config, callVars>>

NextBatch == ProcessBatchStep \/ ProcessBatchReturn

SpecBatch == InitBatch /\ [][NextBatch]_vars

-----------------------------------------------------------------------------
(* Claims about process_batch.                                             *)

(* Whether processing the document behind a path raises, and with what.    *)
DocumentRaises(fp) ==
    fp.load_error # None \/ \E k \in 1..Len(fp.scans) : fp.scans[k].raises

DocumentError(fp) ==
    IF fp.load_error # None THEN fp.load_error
    ELSE LET raising == {k \in 1..Len(fp.scans) : fp.scans[k].raises}
         IN  fp.scans[CHOOSE k \in raising : \A j \in raising : k <= j].error

-----------------------------------------------------------------------------
(* SpecIntraWord: fix_intra_word_spaces on a text.                         *)

MaxIntraLen == 7

IntraAlphabet == {MEEM, ALEF, SP, LATIN_X}

InitIntraWord ==
    /\ pc = "call fix_intra_word_spaces"
    /\ \E t \in TextsUpTo(IntraAlphabet, MaxIntraLen) : args = <<t>>
    /\ returned = <<>>
    /\ NormIdle /\ DictIdle /\ MergeIdle /\ PageIdle /\ DocIdle /\ BatchIdle
    /\ cursor = 0 /\ config = DefaultConfig

FixIntraWordSpaces ==
    /\ pc = "call fix_intra_word_spaces"
    /\ returned' = fix_intra_word_spaces(args[1])
    /\ pc' = "fix_intra_word_spaces returned"
    /\ UNCHANGED <<args, normVars, dictVars, mergeVars, pageVars, docVars, batchVars,
                   cursor, config>>

NextIntraWord == FixIntraWordSpaces

SpecIntraWord == InitIntraWord /\ [][NextIntraWord]_vars

-----------------------------------------------------------------------------
(* Claims about fix_intra_word_spaces.                                     *)

(* Place i of t holds a token of one character, an Arabic-script one: the  *)
(* character stands between whitespace or the ends of the text.            *)
SingleLetterToken(t, i) ==
    /\ arabic_letter(t[i])
    /\ i = 1 \/ IsSpace(t[i - 1])
    /\ i = Len(t) \/ IsSpace(t[i + 1])

(* The places of the single-letter tokens of the run the one at place i    *)
(* belongs to: nothing but whitespace and single-letter tokens in between. *)
LetterRun(t, i) ==
    {j \in 1..Len(t) :
        /\ SingleLetterToken(t, j)
        /\ \A m \in (IF i < j THEN i ELSE j)..(IF i < j THEN j ELSE i) :
               IsSpace(t[m]) \/ SingleLetterToken(t, m)}

(* Place k of t is whitespace inside a run of three or more single-letter  *)
(* tokens.                                                                 *)
InsideLongRun(t, k) ==
    /\ IsSpace(t[k])
    /\ \E a \in 1..(k - 1), b \in (k + 1)..Len(t) :
           /\ SingleLetterToken(t, a) /\ b \in LetterRun(t, a)
           /\ Cardinality(LetterRun(t, a)) >= 3

(* The text without the whitespace inside its runs of three or more        *)
(* single-letter tokens.                                                   *)
RunsJoined(t) ==
    LET upto[k \in 0..Len(t)] ==
            IF k = 0 THEN <<>>
            ELSE IF InsideLongRun(t, k) THEN upto[k - 1]
            ELSE Append(upto[k - 1], t[k])
    IN  upto[Len(t)]

(* C11: fix_intra_word_spaces returns the text with the whitespace inside  *)
(* every run of three or more single-character Arabic-script tokens        *)
(* removed and everything else (runs of one or two such tokens, longer     *)
(* tokens, the whitespace around them) as it was; the non-whitespace       *)
(* characters of the text come out the same, in the same order.            *)
C11_LongRunsJoined ==
    pc = "fix_intra_word_spaces returned" =>
        /\ returned = RunsJoined(args[1])
        /\ SelectSeq(returned, LAMBDA c : ~IsSpace(c))
               = SelectSeq(args[1], LAMBDA c : ~IsSpace(c))

(* A run of three single letters after a Latin token: the run is joined,   *)
(* the token and the space after it stay.                                  *)
C11_Witness ==
    /\ pc = "fix_intra_word_spaces returned"
    /\ args = << <<LATIN_X, SP, MEEM, SP, ALEF, SP, MEEM>> >>
    /\ returned = <<LATIN_X, SP, MEEM, ALEF, MEEM>>

-----------------------------------------------------------------------------
(* SpecDigits: normalize_digits on a text under a mode, then on its own    *)
(* result under the opposite mode.                                         *)

MaxDigitsLen == 2

DigitsAlphabet ==
    (DIGIT_ZERO..DIGIT_NINE) \cup (ARABIC_INDIC_ZERO..ARABIC_INDIC_NINE)
        \cup {MEEM, LATIN_X}

(* The mode that converts back.                                            *)
OppositeMode(mode) ==
    IF mode = "arabic_indic" THEN "western"
    ELSE IF mode = "western" THEN "arabic_indic"
    ELSE "preserve"

InitDigits ==
    /\ pc = "call normalize_digits"
    /\ \E t \in TextsUpTo(DigitsAlphabet, MaxDigitsLen), mode \in DigitModes :
           /\ args = <<t>>
           /\ config = [DefaultConfig EXCEPT !.NORMALIZE_DIGITS = mode]
    /\ returned = <<>>
    /\ NormIdle /\ DictIdle /\ MergeIdle /\ PageIdle /\ DocIdle /\ BatchIdle
    /\ cursor = 0

NormalizeDigits ==
    /\ pc = "call normalize_digits"
    /\ returned' = <<normalize_digits(args[1], config.NORMALIZE_DIGITS)>>
    /\ pc' = "normalize_digits returned"
    /\ UNCHANGED <<args, normVars, dictVars, mergeVars, pageVars, docVars, batchVars,
                   cursor, config>>

(* config.NORMALIZE_DIGITS set to the opposite mode, and normalize_digits  *)
(* called on the text the first call returned.                             *)
NormalizeDigitsBack ==
    /\ pc = "normalize_digits returned"
    /\ config' = [config EXCEPT !.NORMALIZE_DIGITS = OppositeMode(@)]
    /\ returned' = Append(returned,
                          normalize_digits(returned[1],
                                           OppositeMode(config.NORMALIZE_DIGITS)))
    /\ pc' = "normalize_digits returned again"
    /\ UNCHANGED <<args, normVars, dictVars, mergeVars, pageVars, docVars, batchVars,
                   cursor>>

NextDigits == NormalizeDigits \/ NormalizeDigitsBack

SpecDigits == InitDigits /\ [][NextDigits]_vars

-----------------------------------------------------------------------------
(* Claims about normalize_digits.                                          *)

IsWesternDigit(c) == c \in DIGIT_ZERO..DIGIT_NINE

IsArabicIndicDigit(c) == c \in ARABIC_INDIC_ZERO..ARABIC_INDIC_NINE

(* The value 0..9 of a digit of either kind.                               *)
DigitValue(c) == IF IsWesternDigit(c) THEN c - DIGIT_ZERO ELSE c - ARABIC_INDIC_ZERO

(* The mode of the first call.                                             *)
FirstMode ==
    IF pc = "normalize_digits returned again"
    THEN OppositeMode(config.NORMALIZE_DIGITS) ELSE config.NORMALIZE_DIGITS

(* C12, as the claim states it: for every text, converting and converting  *)
(* back returns the original text.                                         *)
C12_RoundTripEveryText ==
    pc = "normalize_digits returned again" => returned[2] = args[1]

(* C12, amended: in a converting mode every digit of the source kind is    *)
(* replaced by the digit of the other kind with the same value and nothing *)
(* else changes; in 'preserve' mode the text comes back unchanged; and     *)
(* converting back returns the original text when it holds no digit of     *)
(* the kind the first conversion writes.                                   *)
C12_ExactSubstitutionAndRoundTrip ==
    pc \in {"normalize_digits returned", "normalize_digits returned again"} =>
        LET t   == args[1]
            out == returned[1]
        IN  /\ Len(out) = Len(t)
            /\ \A i \in 1..Len(t) :
                   IF FirstMode = "arabic_indic" /\ IsWesternDigit(t[i])
                   THEN IsArabicIndicDigit(out[i]) /\ DigitValue(out[i]) = DigitValue(t[i])
                   ELSE IF FirstMode = "western" /\ IsArabicIndicDigit(t[i])
                   THEN IsWesternDigit(out[i]) /\ DigitValue(out[i]) = DigitValue(t[i])
                   ELSE out[i] = t[i]
            /\ pc = "normalize_digits returned again" =>
                   /\ FirstMode = "arabic_indic"
                          /\ (\A i \in 1..Len(t) : ~IsArabicIndicDigit(t[i]))
                          => returned[2] = t
                   /\ FirstMode = "western" /\ (\A i \in 1..Len(t) : ~IsWesternDigit(t[i]))
                          => returned[2] = t
                   /\ FirstMode = "preserve" => returned[2] = t

(* A Western digit and a letter, to Arabic-Indic and back.                 *)
C12_Witness ==
    /\ pc = "normalize_digits returned again"
    /\ args = << <<DIGIT_NINE, MEEM>> >>
    /\ returned = << <<ARABIC_INDIC_NINE, MEEM>>, <<DIGIT_NINE, MEEM>> >>

-----------------------------------------------------------------------------
(* _compute_page_confidence on its own: called with a list of lines.       *)

MaxConfidenceLines == 2

(* Line texts of no, one, four and six characters.                         *)
ConfidenceTexts == {<<>>, <<MEEM>>, MADA, MADA \o <<SP, MEEM>>}

ConfidenceValues == {Conf(0), Conf(59), Conf(85), Conf(100)}

ConfidenceLines ==
    {OCRLine(<<OCRWord(t, SampleBox, c)>>, t, c) : t \in ConfidenceTexts, c \in ConfidenceValues}

InitPageConfidence ==
    /\ pc = "call _compute_page_confidence"
    /\ \E n \in 0..MaxConfidenceLines : \E ls \in [1..n -> ConfidenceLines] : args = <<ls>>
    /\ returned = <<>>
    /\ config = DefaultConfig
    /\ NormIdle /\ DictIdle /\ MergeIdle /\ PageIdle /\ DocIdle /\ BatchIdle
    /\ cursor = 0

ComputePageConfidence ==
    /\ pc = "call _compute_page_confidence"
    /\ returned' = <<_compute_page_confidence(args[1])>>
    /\ pc' = "_compute_page_confidence returned"
    /\ UNCHANGED <<args, normVars, dictVars, mergeVars, pageVars, docVars, batchVars,
                   cursor, config>>

NextPageConfidence == ComputePageConfidence

SpecPageConfidence == InitPageConfidence /\ [][NextPageConfidence]_vars

-----------------------------------------------------------------------------
(* Claims about _compute_page_confidence.                                  *)

(* The sum of confidence * weight over the items, in exact arithmetic;     *)
(* items are <<confidence, weight>> pairs.                                 *)
RECURSIVE ExactWeightedSum(_)
ExactWeightedSum(items) ==
    IF items = <<>> THEN Conf(0)
    ELSE LET rest == ExactWeightedSum(Tail(items))
             c    == Head(items)[1]
             n    == Head(items)[2]
         IN  Fraction(c.num * n * rest.den + rest.num * c.den, c.den * rest.den)

RECURSIVE TotalWeight(_)
TotalWeight(items) == IF items = <<>> THEN 0 ELSE Head(items)[2] + TotalWeight(Tail(items))

(* The weighted mean of the items in exact arithmetic; the total weight is *)
(* not 0.                                                                  *)
ExactWeightedMean(items) ==
    LET s == ExactWeightedSum(items) IN Fraction(s.num, s.den * TotalWeight(items))

(* r is q up to the rounding of so many float operations in a row:         *)
(* |r - q| <= q * steps * 2^(1 - MantissaBits).                            *)
WithinRounding(r, q, steps) ==
    LET d == r.num * q.den - q.num * r.den
        a == IF d >= 0 THEN d ELSE 0 - d
    IN  a * (2 ^ (MantissaBits - 1)) <= q.num * r.den * steps

(* r lies between the smallest and the largest confidence of the items.    *)
BetweenExtremes(r, items) ==
    /\ \E i \in 1..Len(items) : ConfLE(items[i][1], r)
    /\ \E i \in 1..Len(items) : ConfLE(r, items[i][1])

LineItems(ls) == [i \in 1..Len(ls) |-> <<ls[i].confidence, Len(ls[i].text)>>]

-----------------------------------------------------------------------------
(* SpecProcessDocument: process_document on one file whose pages load and  *)
(* are recognized.                                                         *)

MaxDocumentPages == 3

(* The pages the model tries: a page without text, a page of two lines    *)
(* and a page of three lines that begin with the same line and differ in   *)
(* confidence, and a page whose first line ends in a joining letter.       *)
DocumentScans ==
    { Scan(<<>>),
      Scan(<<TextLine(HeaderText, Conf(HIGH_CONFIDENCE_THRESHOLD)),
             TextLine(<<DAL>>, Conf(100))>>),
      Scan(<<TextLine(HeaderText, Conf(HIGH_CONFIDENCE_THRESHOLD)),
             TextLine(<<MEEM, ALEF, DAL>>, Conf(59)),
             TextLine(<<ALEF, DAL>>, Conf(100))>>),
      Scan(<<TextLine(<<DAL, MEEM>>, Conf(100)), TextLine(<<ALEF>>, Conf(59))>>) }

InitProcessDocument ==
    /\ pc = "call process_document"
    /\ \E n \in 0..MaxDocumentPages : \E scans \in [1..n -> DocumentScans] :
           args = <<Document("case.pdf", None, scans)>>
    /\ returned = <<>>
    /\ config = DefaultConfig
    /\ NormIdle /\ DictIdle /\ MergeIdle /\ PageIdle /\ DocIdle /\ BatchIdle
    /\ cursor = 0

ProcessDocument ==
    /\ pc = "call process_document"
    /\ LET dictionary == load_legal_dictionary(legal_dictionary, dictionary_file)
       IN  \E doc_id \in DocIds :
           \E outcome \in process_document(args[1], doc_id, config, dictionary) :
               /\ ~outcome.raised
               /\ returned' = <<outcome.result>>
    /\ pc' = "process_document returned"
    /\ UNCHANGED <<args, normVars, dictVars, mergeVars, pageVars, docVars, batchVars,
                   cursor, config>>

NextProcessDocument == ProcessDocument

SpecProcessDocument == InitProcessDocument /\ [][NextProcessDocument]_vars

-----------------------------------------------------------------------------
(* Claims about process_document.                                          *)

PageItems(ps) == [k \in 1..Len(ps) |-> <<ps[k].confidence, Len(ps[k].raw_text)>>]

RECURSIVE JoinedStart(_, _)
JoinedStart(texts, k) ==
    IF k = 1 THEN 1 ELSE JoinedStart(texts, k - 1) + Len(texts[k - 1]) + 1

(* raw is the texts in their order with one newline between two texts and  *)
(* nothing else.                                                           *)
IsNewlineJoined(raw, texts) ==
    IF texts = <<>> THEN raw = <<>>
    ELSE /\ Len(raw) = JoinedStart(texts, Len(texts)) + Len(Last(texts)) - 1
         /\ \A k \in 1..Len(texts) :
                /\ SubSeq(raw, JoinedStart(texts, k),
                          JoinedStart(texts, k) + Len(texts[k]) - 1) = texts[k]
                /\ k < Len(texts) => raw[JoinedStart(texts, k) + Len(texts[k])] = NEWLINE

(* The pages run_ocr returned for the document, and the pages              *)
(* postprocess_page can return for them.                                   *)
RecognizedPages == process(args[1].scans).page_results

CorrectedPages ==
    UNION {Range(ps) : ps \in PostprocessedPages(
                                  RecognizedPages, config,
                                  load_legal_dictionary(legal_dictionary, dictionary_file))}

(* C15: the raw_text of every page result - of the recognition adapter, of *)
(* postprocess_page and of postprocess_document_pages - is the texts of    *)
(* its lines in line order with one newline between two lines, and empty   *)
(* for a page without lines.                                               *)
C15_RawTextIsJoinedLines ==
    pc = "process_document returned" =>
        \A page \in Range(RecognizedPages) \cup CorrectedPages
                        \cup Range(returned[1].pages) :
            IsNewlineJoined(page.raw_text, LineTexts(page.lines))

(* A document of three pages: one lost its first line and keeps two        *)
(* lines, one lost its first line and keeps one, one had its two lines     *)
(* merged.                                                                 *)
C15_Witness ==
    /\ pc = "process_document returned"
    /\ Len(returned[1].pages) = 3
    /\ Len(RecognizedPages[1].lines) = 3 /\ Len(returned[1].pages[1].lines) = 2
    /\ NEWLINE \in Range(returned[1].pages[1].raw_text)
    /\ Len(RecognizedPages[2].lines) = 2
    /\ RecognizedPages[2].lines[1].text = HeaderText
    /\ Len(returned[1].pages[2].lines) = 1
    /\ Len(RecognizedPages[3].lines) = 2 /\ Len(returned[1].pages[3].lines) = 1
    /\ RecognizedPages[3].lines[1].text # HeaderText

(* The place of the first character of the k-th text in the texts joined   *)
(* with two characters between two texts.                                  *)
RECURSIVE PageStart(_, _)
PageStart(texts, k) ==
    IF k = 1 THEN 1 ELSE PageStart(texts, k - 1) + Len(texts[k - 1]) + 2

(* raw is the texts in their order with two newlines between two texts and *)
(* nothing else.                                                           *)
IsDoubleNewlineJoined(raw, texts) ==
    IF texts = <<>> THEN raw = <<>>
    ELSE /\ Len(raw) = PageStart(texts, Len(texts)) + Len(Last(texts)) - 1
         /\ \A k \in 1..Len(texts) :
                /\ SubSeq(raw, PageStart(texts, k),
                          PageStart(texts, k) + Len(texts[k]) - 1) = texts[k]
                /\ k < Len(texts) =>
                       /\ raw[PageStart(texts, k) + Len(texts[k])] = NEWLINE
                       /\ raw[PageStart(texts, k) + Len(texts[k]) + 1] = NEWLINE

PageTexts(ps) == [k \in 1..Len(ps) |-> ps[k].raw_text]

(* C16, as the claim states it: the raw_text of a document is the raw_text *)
(* of all of its pages in page order with two newlines between two         *)
(* consecutive pages, and total_pages is the number of its pages.          *)
C16_AllPagesJoined ==
    pc = "process_document returned" =>
        /\ IsDoubleNewlineJoined(returned[1].raw_text, PageTexts(returned[1].pages))
        /\ returned[1].total_pages = Len(returned[1].pages)

(* C16, amended: the raw_text of a document is the raw_text of its pages   *)
(* that have text, in page order, with two newlines between two            *)
(* consecutive pages that have text; total_pages is the number of its      *)
(* pages, those without text among them.                                   *)
C16_PagesWithTextJoined ==
    pc = "process_document returned" =>
        /\ IsDoubleNewlineJoined(
               returned[1].raw_text,
               SelectSeq(PageTexts(returned[1].pages), LAMBDA t : t # <<>>))
        /\ returned[1].total_pages = Len(returned[1].pages)

(* A page without text between two pages with text.                        *)
C16_Witness ==
    /\ pc = "process_document returned"
    /\ returned[1].total_pages = 3
    /\ returned[1].pages[1].raw_text # <<>>
    /\ returned[1].pages[2].raw_text = <<>>
    /\ returned[1].pages[3].raw_text # <<>>
    /\ returned[1].raw_text
           = returned[1].pages[1].raw_text \o <<NEWLINE, NEWLINE>>
                 \o returned[1].pages[3].raw_text

-----------------------------------------------------------------------------
(* Claims about run_ocr: the shape of what it returns.                     *)

(* C17: run_ocr returns one page result per image, in the order of the     *)
(* images: the k-th result has page_number k and holds the lines           *)
(* recognized on the k-th image.                                           *)
C17_OneResultPerImage ==
    pc = "recognized" =>
        /\ ~ocr_outcome.raised
        /\ Len(ocr_outcome.page_results) = Len(images)
        /\ \A k \in 1..Len(images) :
               /\ ocr_outcome.page_results[k].page_number = k
               /\ ocr_outcome.page_results[k].lines = EngineLines(images[k].text_lines)

-----------------------------------------------------------------------------
(* preprocessor.py and the preprocessing switches of config.py.  An image  *)
(* is its size and what the detectors of the steps find on it: the number  *)
(* of pixels darker than 128, the angle of the smallest rectangle around   *)
(* them, and the box around the largest contour.                           *)

ENABLE_RESOLUTION_CHECK     == TRUE
MIN_DPI                     == 150
ENABLE_DESKEW               == TRUE
ENABLE_DENOISE              == FALSE
ENABLE_BORDER_REMOVAL       == TRUE
ENABLE_CONTRAST_ENHANCEMENT == TRUE

(* cv2.minAreaRect gives the angle as a single-precision float; the model  *)
(* counts angles in parts of a degree, and every number of parts up to 90  *)
(* degrees is such a float.  One tenth of a degree is no whole number of   *)
(* parts, as 0.1 is no single-precision float.                             *)
DegreeParts == 1024

(* cv2.minAreaRect(coords)[-1] in parts of a degree, with the cosine and   *)
(* sine (cos/den, sin/den) of the angle deskew turns the image by.         *)
Angle(parts, c, s, d) == [parts |-> parts, cos |-> c, sin |-> s, den |-> d]

(* cv2.boundingRect(largest): x, y, w, h in eighths of the image.          *)
Box(x8, y8, w8, h8) == [x8 |-> x8, y8 |-> y8, w8 |-> w8, h8 |-> h8]

PageImage(w, h, dark_pixels, angle, contours) ==
    [width |-> w, height |-> h, dark_pixels |-> dark_pixels,
     min_area_rect_angle |-> angle, contours |-> contours]

(* image.resize, image.rotate and image.crop give an image of a new size.  *)
Resized(image, w, h) == [image EXCEPT !.width = w, !.height = h]

Floor(n, d) == n \div d
Ceil(n, d)  == 0 - ((0 - n) \div d)

(* A mistaken check: every image is resized to the expected height.        *)
check_and_upscale_resolution_to_expected(image) ==
    LET expected_height_at_min == (MIN_DPI * 1169) \div 100
    IN  Resized(image, (image.width * expected_height_at_min) \div image.height,
                expected_height_at_min)

check_and_upscale_resolution(image) ==
    LET expected_height_at_min == (MIN_DPI * 1169) \div 100
        w == image.width
        h == image.height
        capped == expected_height_at_min > 3 * h
    IN  IF h >= expected_height_at_min THEN image
        ELSE IF ~capped /\ 100 * expected_height_at_min <= 105 * h THEN image
        ELSE IF capped THEN Resized(image, 3 * w, 3 * h)
        ELSE Resized(image, (w * expected_height_at_min) \div h,
                     (h * expected_height_at_min) \div h)

(* image.rotate(..., expand=True): the corners are turned about the        *)
(* centre, and the new size is ceil(max) - floor(min) of their              *)
(* coordinates.                                                            *)
Rotated(image, angle) ==
    LET w  == image.width
        h  == image.height
        ex == w * angle.cos + h * angle.sin
        ey == w * angle.sin + h * angle.cos
        nw == Ceil(w * angle.den + ex, 2 * angle.den)
                  - Floor(w * angle.den - ex, 2 * angle.den)
        nh == Ceil(h * angle.den + ey, 2 * angle.den)
                  - Floor(h * angle.den - ey, 2 * angle.den)
    IN  Resized(image, nw, nh)

(* "if angle < -45: angle = -(90 + angle) else: angle = -angle"            *)
NormalizedAngle(raw) ==
    IF raw < 0 - 45 * DegreeParts THEN 0 - (90 * DegreeParts + raw) ELSE 0 - raw

(* A mistaken deskew without the "abs(angle) > 15" test.                   *)
deskew_any_large_angle(image) ==
    IF image.dark_pixels < 50 THEN image
    ELSE LET angle == NormalizedAngle(image.min_area_rect_angle.parts)
             size  == IF angle < 0 THEN 0 - angle ELSE angle
         IN  IF 10 * size < DegreeParts THEN image
             ELSE Rotated(image, image.min_area_rect_angle)

(* "abs(angle) < 0.1" is 10 * size < DegreeParts.                          *)
deskew(image) ==
    IF image.dark_pixels < 50 THEN image
    ELSE LET angle == NormalizedAngle(image.min_area_rect_angle.parts)
             size  == IF angle < 0 THEN 0 - angle ELSE angle
         IN  IF size > 15 * DegreeParts \/ 10 * size < DegreeParts THEN image
             ELSE Rotated(image, image.min_area_rect_angle)

remove_borders(image) ==
    IF image.contours = <<>> THEN image
    ELSE LET largest == image.contours[1]
             x == (image.width * largest.x8) \div 8
             y == (image.height * largest.y8) \div 8
             w == (image.width * largest.w8) \div 8
             h == (image.height * largest.h8) \div 8
             pad == 5
             y_start == IF y - pad > 0 THEN y - pad ELSE 0
             y_end   == IF y + h + pad < image.height THEN y + h + pad ELSE image.height
             x_start == IF x - pad > 0 THEN x - pad ELSE 0
             x_end   == IF x + w + pad < image.width THEN x + w + pad ELSE image.width
         IN  IF 2 * w * h < image.width * image.height THEN image
             ELSE Resized(image, x_end - x_start, y_end - y_start)

(* Image.fromarray of an array of the same shape.                          *)
enhance_contrast(image) == image

denoise(image) == image

(* An argument that is None takes the value of config.                     *)
Overrides == {None, "True", "False"}

Enabled(override, default) == IF override = None THEN default ELSE override = "True"

preprocess_image(image, enable_denoise, enable_deskew, enable_border_removal, enable_contrast_enhancement, enable_resolution_check) ==
    LET result0 == image
        result1 == IF Enabled(enable_resolution_check, ENABLE_RESOLUTION_CHECK)
                   THEN check_and_upscale_resolution(result0) ELSE result0
        result2 == IF Enabled(enable_deskew, ENABLE_DESKEW)
                   THEN deskew(result1) ELSE result1
        result3 == IF Enabled(enable_border_removal, ENABLE_BORDER_REMOVAL)
                   THEN remove_borders(result2) ELSE result2
        result4 == IF Enabled(enable_contrast_enhancement, ENABLE_CONTRAST_ENHANCEMENT)
                   THEN enhance_contrast(result3) ELSE result3
    IN  IF Enabled(enable_denoise, ENABLE_DENOISE) THEN denoise(result4) ELSE result4

-----------------------------------------------------------------------------
(* SpecPreprocess: preprocess_image on one page image.                     *)

(* An A4 page at 300 and at 75 dots per inch, a square page a little below *)
(* the expected height, and a strip ten times wider than tall.             *)
ImageSizes == {<<2480, 3508>>, <<620, 877>>, <<1700, 1700>>, <<1000, 100>>}

(* -90, -12.68, -77.32 and -22.62 degrees.                                 *)
Straight == Angle(0 - 92160, 1, 0, 1)
Skewed   == Angle(0 - 12985, 40, 9, 41)
Leaning  == Angle(0 - 79175, 40, 9, 41)
Turned   == Angle(0 - 23163, 12, 5, 13)

(* A word, a frame around the text, the black border of a scan.            *)
WordBox   == Box(1, 1, 2, 1)
FrameBox  == Box(1, 1, 6, 6)
BorderBox == Box(0, 0, 8, 8)

(* What is on the page: nothing, text that is straight, skewed either way  *)
(* or turned, a frame, a skewed frame, a black border.                     *)
ImageContents ==
    { <<0, Straight, <<>>>>,
      <<5000, Straight, <<WordBox>>>>,
      <<5000, Skewed, <<WordBox>>>>,
      <<5000, Leaning, <<WordBox>>>>,
      <<5000, Turned, <<WordBox>>>>,
      <<5000, Straight, <<FrameBox>>>>,
      <<5000, Skewed, <<FrameBox>>>>,
      <<5000, Straight, <<BorderBox>>>> }

PageImages ==
    {PageImage(size[1], size[2], content[1], content[2], content[3]) :
        size \in ImageSizes, content \in ImageContents}

InitPreprocess ==
    /\ pc = "call preprocess_image"
    /\ \E image \in PageImages : \E o \in [1..5 -> Overrides] :
           args = <<image, o[1], o[2], o[3], o[4], o[5]>>
    /\ returned = <<>>
    /\ config = DefaultConfig
    /\ NormIdle /\ DictIdle /\ MergeIdle /\ PageIdle /\ DocIdle /\ BatchIdle
    /\ cursor = 0

PreprocessImage ==
    /\ pc = "call preprocess_image"
    /\ returned' = <<preprocess_image(args[1], args[2], args[3], args[4], args[5], args[6])>>
    /\ pc' = "preprocess_image returned"
    /\ UNCHANGED <<args, normVars, dictVars, mergeVars, pageVars, docVars, batchVars,
                   cursor, config>>

NextPreprocess == PreprocessImage

SpecPreprocess == InitPreprocess /\ [][NextPreprocess]_vars

-----------------------------------------------------------------------------
(* Claims about preprocess_image.                                          *)

(* The side of the image that is longer is at most seven times the other.  *)
NotElongated(image) ==
    image.width <= 7 * image.height /\ image.height <= 7 * image.width

(* C18, as the claim states it: for every image and every combination of   *)
(* the five switches, the image preprocess_image returns is at least as    *)
(* wide and at least as high as the image it was given.                    *)
C18_SameOrLarger ==
    pc = "preprocess_image returned" =>
        /\ returned[1].width >= args[1].width
        /\ returned[1].height >= args[1].height

(* C18, amended: with border removal off, the image preprocess_image       *)
(* returns for an image that is not elongated is at least as wide and at   *)
(* least as high as the image it was given, whatever the other switches.   *)
C18_SameOrLargerWithoutBorderRemoval ==
    (/\ pc = "preprocess_image returned"
     /\ ~Enabled(args[4], ENABLE_BORDER_REMOVAL)
     /\ NotElongated(args[1]))
        => /\ returned[1].width >= args[1].width
           /\ returned[1].height >= args[1].height

(* A low-resolution skewed page, border removal off: enlarged by the       *)
(* resolution check and again by the rotation.                             *)
C18_Witness ==
    /\ pc = "preprocess_image returned"
    /\ args[1].width = 620 /\ args[1].height = 877
    /\ args[1].min_area_rect_angle = Skewed /\ args[1].dark_pixels >= 50
    /\ args[4] = "False"
    /\ Enabled(args[3], ENABLE_DESKEW) /\ Enabled(args[6], ENABLE_RESOLUTION_CHECK)
    /\ returned[1].width > 1239 /\ returned[1].height > 1753

-----------------------------------------------------------------------------
(* SpecBatchOrder: process_batch with the call of process_document and the *)
(* recording of its result as two steps.  cursor counts the documents      *)
(* whose process_document call has begun, results holds what has been      *)
(* recorded; max_workers is <<>> for None and <<n>> for n.                 *)

MaxBatchDocuments == 2

MaxWorkers == 3

(* A thread pool in place of the loop: a call begins while fewer than      *)
(* max_workers calls are under way.                                        *)
StartsNextDocument_pooled(started, recorded, max_workers) ==
    IF max_workers = <<>> THEN started = recorded
    ELSE started - recorded < max_workers[1]

(* "for fp in file_paths": the body begins for the next document when the  *)
(* body of the one before has ended; max_workers is not read.              *)
StartsNextDocument(started, recorded, max_workers) == started = recorded

InitBatchOrder ==
    /\ pc = "call process_batch"
    /\ \E n \in 0..MaxBatchDocuments : \E fps \in [1..n -> Documents] :
           file_paths = fps
    /\ \E max_workers \in {<<>>} \cup {<<n>> : n \in 1..MaxWorkers} :
           args = <<max_workers>>
    /\ returned = <<>>
    /\ results = <<>>
    /\ cursor = 0
    /\ images = <<>> /\ ocr_outcome = NoOutcome /\ engine = NoEngine
    /\ dictionary_file \in PageDictionaryFiles
    /\ legal_dictionary = NoDictionary
    /\ entry = None /\ word = <<>> /\ dict_result = <<>>
    /\ NormIdle /\ MergeIdle /\ PageIdle /\ DocIdle
    /\ config = DefaultConfig

(* "result = process_document(fp, ...)" is called.                         *)
CallProcessDocument ==
    /\ pc = "call process_batch"
    /\ cursor < Len(file_paths)
    /\ StartsNextDocument(cursor, Len(results), args[1])
    /\ cursor' = cursor + 1
    /\ UNCHANGED <<pc, file_paths, results, images, ocr_outcome, engine, dictVars,
                   normVars, mergeVars, pageVars, docVars, config, callVars>>

(* process_document returns or raises, and "results.append(...)".          *)
RecordResult ==
    /\ pc = "call process_batch"
    /\ Len(results) < cursor
    /\ LET fp == file_paths[Len(results) + 1]
           dictionary == load_legal_dictionary(legal_dictionary, dictionary_file)
       IN  \E doc_id \in DocIds, placeholder_id \in DocIds :
           \E outcome \in process_document(fp, doc_id, config, dictionary) :
               /\ results' = process_batch_step(results, fp, outcome, placeholder_id)
               /\ engine' = IF outcome.ran_ocr THEN LoadedEngine ELSE engine
               /\ legal_dictionary' =
                      CacheAfterDocument(legal_dictionary, dictionary_file, fp,
                                         outcome, config)
    /\ UNCHANGED <<pc, cursor, file_paths, images, ocr_outcome, dictionary_file, entry,
                   word, dict_result, normVars, mergeVars, pageVars, docVars, config,
                   callVars>>

(* "return results"                                                        *)
ReturnResults ==
    /\ pc = "call process_batch"
    /\ cursor = Len(file_paths) /\ Len(results) = cursor
    /\ returned' = <<results>>
    /\ pc' = "process_batch returned"
    /\ UNCHANGED <<args, file_paths, results, cursor, images, ocr_outcome, engine,
                   dictVars, normVars, mergeVars, pageVars, docVars, config>>

NextBatchOrder == CallProcessDocument \/ RecordResult \/ ReturnResults

SpecBatchOrder == InitBatchOrder /\ [][NextBatchOrder]_vars

-----------------------------------------------------------------------------
(* Claims about the order of process_batch.                                *)

(* C19: whatever max_workers is, at most one process_document call, and so *)
(* at most one recognition call, is under way at any time: the call for a  *)
(* document begins only when the result or the placeholder of every        *)
(* document before it has been recorded.                                   *)
C19_RecognitionSerialized ==
    [][/\ cursor - Len(results) \in {0, 1}
       /\ cursor' > cursor => Len(results) = cursor /\ cursor' = cursor + 1
       /\ Len(results') > Len(results) =>
              /\ Len(results') = cursor
              /\ Last(results').file_path = file_paths[cursor].path]_vars

(* With max_workers 2 and two documents, the call for the second document  *)
(* is under way and the result of the first is recorded.                   *)
C19_Witness ==
    /\ pc = "call process_batch"
    /\ args = << <<2>> >>
    /\ Len(file_paths) = 2
    /\ cursor = 2 /\ Len(results) = 1

-----------------------------------------------------------------------------
(* Claims about dictionary_correct without a dictionary.                   *)

(* The file gives no term: it is not there, or each of its lines is empty  *)
(* or a comment once stripped.                                             *)
DictionaryUnavailable(file) ==
    \/ ~file.exists
    \/ \A line \in file.lines : strip(line) = <<>> \/ Head(strip(line)) = HASH

(* C20: when the dictionary file is missing or gives no term,              *)
(* dictionary_correct returns the word it was given, for every word and    *)
(* for both callers; the cache never holds a term.                         *)
C20_NoDictionaryNoCorrection ==
    DictionaryUnavailable(dictionary_file) =>
        /\ legal_dictionary.terms = {}
        /\ pc = "done" => dict_result = word

(* postprocess_page handed over a word, the file is missing, and the word  *)
(* came back.                                                              *)
C20_Witness ==
    /\ pc = "done"
    /\ ~dictionary_file.exists
    /\ entry = "postprocess_page"
    /\ word = <<MEEM, DAL>>
    /\ dict_result = <<MEEM, DAL>>

-----------------------------------------------------------------------------
(* SpecDocPages: postprocess_document_pages on pages that differ in their  *)
(* page numbers, confidences, warnings and has_errors.                     *)

MaxCleanedPages == 3

CleanedPageShapes ==
    { <<>>,
      <<HeaderText>>,
      <<HeaderText, BodyText, FooterText>>,
      <<BodyText, <<SP>> \o FooterText>> }

(* f"Low confidence ({confidence:.2f}) for: '{text[:50]}'"                 *)
LowConfidenceWarning(t) == [text |-> "Low confidence", detail |-> t]

(* The page number, confidence, warnings and has_errors of a page.         *)
PageMetadata(page) ==
    [page_number |-> page.page_number, confidence |-> page.confidence,
     warnings |-> page.warnings, has_errors |-> page.has_errors]

CleanedPageMetadata ==
    { [page_number |-> 1, confidence |-> Conf(HIGH_CONFIDENCE_THRESHOLD),
       warnings |-> <<>>, has_errors |-> FALSE],
      [page_number |-> 2, confidence |-> Conf(MEDIUM_CONFIDENCE_THRESHOLD - 1),
       warnings |-> <<LowConfidenceWarning(BodyText)>>, has_errors |-> FALSE],
      [page_number |-> 7, confidence |-> Conf(MEDIUM_CONFIDENCE_THRESHOLD - 1),
       warnings |-> <<LowConfidenceWarning(BodyText)>>, has_errors |-> TRUE] }

InitDocPages ==
    /\ pc = "pages"
    /\ CallIdle
    /\ \E n \in 0..MaxCleanedPages :
       \E shapes \in [1..n -> CleanedPageShapes], metadata \in [1..n -> CleanedPageMetadata] :
           pages = [k \in 1..n |->
                       LET ls == [i \in 1..Len(shapes[k]) |-> PageLine(shapes[k][i])]
                       IN  OCRPageResult(metadata[k].page_number, ls,
                                         Join(<<NEWLINE>>, LineTexts(ls)),
                                         metadata[k].confidence, metadata[k].warnings,
                                         metadata[k].has_errors)]
    /\ cleaned_pages = <<>>
    /\ NormIdle /\ DictIdle /\ MergeIdle /\ PageIdle /\ BatchIdle
    /\ cursor = 0 /\ config = DefaultConfig

SpecDocPages == InitDocPages /\ [][NextDoc]_vars

(* C23: of a document of at least 3 pages, postprocess_document_pages      *)
(* returns as many pages in the same order, each with the page_number,     *)
(* confidence, warnings and has_errors it had; of a page's lines it drops  *)
(* at most the first and at most the last, the first only when its         *)
(* trimmed text is a detected header, the last only when its trimmed text  *)
(* is a detected footer, and the lines left are the page's own, unchanged  *)
(* and in order.                                                           *)
C23_OneLineFromEachEnd ==
    pc = "cleaned" /\ Len(pages) >= 3 =>
        /\ Len(cleaned_pages) = Len(pages)
        /\ \A n \in 1..Len(pages) :
               LET before == pages[n].lines
                   after  == cleaned_pages[n].lines
               IN  /\ PageMetadata(cleaned_pages[n]) = PageMetadata(pages[n])
                   /\ \E header \in 0..1, footer \in 0..1 :
                          /\ after = SubSeq(before, 1 + header, Len(before) - footer)
                          /\ header = 1 =>
                                 /\ before # <<>>
                                 /\ 2 * HeaderPages(strip(before[1].text)) > Len(pages)
                          /\ footer = 1 =>
                                 /\ before # <<>>
                                 /\ 2 * FooterPages(strip(Last(before).text)) > Len(pages)

(* Three pages: the only line of the first is the header and goes; the     *)
(* third loses its footer, whose text has a space in front; each page      *)
(* keeps its number, its warning and its error flag.                       *)
C23_Witness ==
    /\ pc = "cleaned"
    /\ Len(pages) = 3
    /\ LineTexts(pages[1].lines) = <<HeaderText>>
    /\ cleaned_pages[1].lines = <<>>
    /\ cleaned_pages[1].page_number = 7
    /\ cleaned_pages[1].confidence = Conf(MEDIUM_CONFIDENCE_THRESHOLD - 1)
    /\ cleaned_pages[1].warnings = <<LowConfidenceWarning(BodyText)>>
    /\ cleaned_pages[1].has_errors
    /\ LineTexts(pages[2].lines) = <<HeaderText, BodyText, FooterText>>
    /\ LineTexts(cleaned_pages[2].lines) = <<BodyText>>
    /\ LineTexts(pages[3].lines) = <<BodyText, <<SP>> \o FooterText>>
    /\ LineTexts(cleaned_pages[3].lines) = <<BodyText>>

-----------------------------------------------------------------------------
(* SpecPageWords: postprocess_page on pages whose lines have one or two    *)
(* words, each word with a box of its own, and whose page number,          *)
(* confidence, warnings and has_errors differ.                             *)

MaxWordLines == 2

WordLines ==
    { OCRLine(<<OCRWord(<<DAL, MEEM>>, CornerPoints(0, 0, 40, 30),
                        Conf(MEDIUM_CONFIDENCE_THRESHOLD - 1)),
                OCRWord(<<MEEM, ALEF, DAL>>, CornerPoints(50, 0, 100, 30),
                        Conf(MEDIUM_CONFIDENCE_THRESHOLD))>>,
              <<DAL, MEEM, SP, MEEM, ALEF, DAL>>, Conf(MEDIUM_CONFIDENCE_THRESHOLD)),
      OCRLine(<<OCRWord(<<LRM, MEEM>>, CornerPoints(0, 40, 100, 70),
                        Conf(HIGH_CONFIDENCE_THRESHOLD))>>,
              <<LRM, MEEM>>, Conf(HIGH_CONFIDENCE_THRESHOLD)),
      OCRLine(<<OCRWord(<<ALEF_HAMZA_ABOVE, DIGIT_ZERO + 1>>, CornerPoints(0, 80, 100, 110),
                        Conf(HIGH_CONFIDENCE_THRESHOLD - 1))>>,
              <<ALEF_HAMZA_ABOVE, DIGIT_ZERO + 1>>, Conf(HIGH_CONFIDENCE_THRESHOLD - 1)) }

InitPageWords ==
    /\ pc = "start"
    /\ CallIdle
    /\ config = DefaultConfig
    /\ dictionary_file \in PageDictionaryFiles
    /\ legal_dictionary = NoDictionary
    /\ \E ls \in UNION {[1..n -> WordLines] : n \in 0..MaxWordLines},
          metadata \in CleanedPageMetadata :
           page_result = OCRPageResult(metadata.page_number, ls,
                                       Join(<<NEWLINE>>, LineTexts(ls)),
                                       metadata.confidence, metadata.warnings,
                                       metadata.has_errors)
    /\ corrected_page = NoPage
    /\ dict_calls = {}
    /\ entry = None /\ word = <<>> /\ dict_result = <<>>
    /\ NormIdle /\ MergeIdle /\ DocIdle /\ BatchIdle
    /\ cursor = 0

SpecPageWords == InitPageWords /\ [][NextPage]_vars

(* C24: postprocess_page returns a page with the page_number, confidence,  *)
(* warnings and has_errors of the page it was given; the words of its      *)
(* lines, taken in order over the whole page, are as many as the words of  *)
(* the input, and each has the bbox and the confidence of the input word   *)
(* in its place; the page handed in is afterwards as it was.               *)
C24_MetadataAndWordsKept ==
    [][pc = "start" /\ pc' = "done" =>
          /\ page_result' = page_result
          /\ PageMetadata(corrected_page') = PageMetadata(page_result)
          /\ LET before == WordsOf(page_result)
                 after  == WordsOf(corrected_page')
             IN  /\ Len(after) = Len(before)
                 /\ \A n \in 1..Len(before) :
                        /\ after[n].bbox = before[n].bbox
                        /\ after[n].confidence = before[n].confidence]_vars

(* A page with a warning and has_errors set, of two lines and three words; *)
(* the lines were merged into one, normalization changed the first word    *)
(* and the dictionary the third, and the page kept its warning.            *)
C24_Witness ==
    /\ pc = "done"
    /\ page_result.page_number = 7 /\ page_result.has_errors
    /\ Len(page_result.lines) = 2
    /\ Len(WordsOf(page_result)) = 3
    /\ Len(corrected_page.lines) = 1
    /\ Len(corrected_page.lines[1].words) = 3
    /\ WordsOf(page_result)[1].text = <<LRM, MEEM>>
    /\ corrected_page.lines[1].words[1].text = <<MEEM>>
    /\ WordsOf(page_result)[3].text = <<MEEM, ALEF, DAL>>
    /\ corrected_page.lines[1].words[3].text = MADA
    /\ corrected_page.lines[1].words[3].bbox = CornerPoints(50, 0, 100, 30)
    /\ corrected_page.warnings = <<LowConfidenceWarning(BodyText)>>
    /\ corrected_page.has_errors

-----------------------------------------------------------------------------
(* SpecDeskew: deskew on one page image whose skew is near one of the      *)
(* bounds of the function.                                                 *)

(* The sizes of the angles tried, in parts of a degree, each with the      *)
(* cosine and sine of an angle within a quarter of a part of it: next to   *)
(* nothing; either side of 0.1 degrees (102.4 parts); either side of 15    *)
(* degrees and 15 degrees; 45 degrees and the angle before it.             *)
SkewSizes ==
    { <<1, 1, 0, 1>>,
      <<101, 1350243, 2324, 1350245>>,
      <<102, 1322499, 2300, 1322501>>,
      <<103, 648660, 1139, 648661>>,
      <<104, 1272383, 2256, 1272385>>,
      <<15359, 673703, 180504, 697465>>,
      <<15360, 62620, 16779, 64829>>,
      <<15361, 99997, 26796, 103525>>,
      <<46079, 23661, 23660, 33461>>,
      <<46080, 803761, 803760, 1136689>> }

(* minAreaRect reports a skew of the size a as -a, or as a - 90 when the   *)
(* rectangle is taken by its other side; -90 when there is no skew.        *)
SkewAngles ==
    {Angle(0 - a[1], a[2], a[3], a[4]) : a \in SkewSizes}
        \cup {Angle(a[1] - 90 * DegreeParts, a[2], a[3], a[4]) :
                 a \in {b \in SkewSizes : b[1] < 45 * DegreeParts}}
        \cup {Straight}

DarkPixelCounts == {0, 49, 50, 5000}

DeskewSizes == {<<100, 100>>, <<400, 500>>}

InitDeskew ==
    /\ pc = "call deskew"
    /\ \E size \in DeskewSizes, dark_pixels \in DarkPixelCounts, angle \in SkewAngles :
           args = <<PageImage(size[1], size[2], dark_pixels, angle,
                              IF dark_pixels = 0 THEN <<>> ELSE <<WordBox>>)>>
    /\ returned = <<>>
    /\ config = DefaultConfig
    /\ NormIdle /\ DictIdle /\ MergeIdle /\ PageIdle /\ DocIdle /\ BatchIdle
    /\ cursor = 0

Deskew ==
    /\ pc = "call deskew"
    /\ returned' = <<deskew(args[1])>>
    /\ pc' = "deskew returned"
    /\ UNCHANGED <<args, normVars, dictVars, mergeVars, pageVars, docVars, batchVars,
                   cursor, config>>

NextDeskew == Deskew

SpecDeskew == InitDeskew /\ [][NextDeskew]_vars

(* C25: deskew returns a rotated image - one of another size, the canvas   *)
(* being expanded - exactly when the image has at least 50 dark pixels and *)
(* the normalized angle a has 0.1 < |a| <= 15 degrees, and otherwise the   *)
(* image it was given; the normalized angle of a raw angle in [-90, 0) is  *)
(* in (-45, 45].                                                           *)
C25_RotatesOnlySmallSkew ==
    pc = "deskew returned" =>
        LET image == args[1]
            raw   == image.min_area_rect_angle.parts
            a     == NormalizedAngle(raw)
            size  == IF a < 0 THEN 0 - a ELSE a
            in_bounds == 10 * size > DegreeParts /\ size <= 15 * DegreeParts
        IN  /\ returned[1] # image <=> image.dark_pixels >= 50 /\ in_bounds
            /\ ~(image.dark_pixels >= 50 /\ in_bounds) => returned[1] = image
            /\ (0 - 90 * DegreeParts <= raw /\ raw < 0) =>
                   (0 - 45 * DegreeParts < a /\ a <= 45 * DegreeParts)

(* An image with 50 dark pixels and a skew of 103 parts, the first angle   *)
(* above 0.1 degrees, reported from the other side of the rectangle, came  *)
(* back two pixels wider and higher.                                       *)
C25_Witness ==
    /\ pc = "deskew returned"
    /\ args[1].dark_pixels = 50
    /\ args[1].min_area_rect_angle.parts = 103 - 90 * DegreeParts
    /\ args[1].width = 100 /\ args[1].height = 100
    /\ returned[1].width = 102 /\ returned[1].height = 102

-----------------------------------------------------------------------------
(* Claims about the warnings of run_ocr.                                   *)

(* text[:n]                                                                *)
Truncated(t, n) == SubSeq(t, 1, IF Len(t) < n THEN Len(t) ELSE n)

(* The recognized lines of page k whose confidence is below the            *)
(* medium-confidence threshold.                                            *)
LowConfidenceLines(k) ==
    {i \in 1..Len(ocr_outcome.page_results[k].lines) :
        ConfLT(ocr_outcome.page_results[k].lines[i].confidence,
               Conf(MEDIUM_CONFIDENCE_THRESHOLD))}

(* C22: the page result that run_ocr returns has, for every line whose     *)
(* confidence is below the medium-confidence threshold, a warning that     *)
(* carries the first 50 characters of the line's text; it has no other     *)
(* warning for a page with text, and has_errors is false.                  *)
C22_LowConfidenceWarned ==
    pc = "recognized" /\ ~ocr_outcome.raised =>
        \A k \in 1..Len(images) :
            LET page == ocr_outcome.page_results[k]
            IN  /\ \A i \in LowConfidenceLines(k) :
                       \E w \in Range(page.warnings) :
                           w.detail = Truncated(page.lines[i].text, 50)
                /\ page.lines # <<>> =>
                       Len(page.warnings) = Cardinality(LowConfidenceLines(k))
                /\ ~page.has_errors

-----------------------------------------------------------------------------
(* engine.py: the SuryaOCREngine objects of a process, their model         *)
(* attributes, and the module global _engine that refers to one of them.   *)

(* An attribute that refers to a predictor object holds <<n>>, n the       *)
(* number of the object; one that is not set, or refers to nothing, <<>>.  *)
NoPredictor  == <<>>
Predictor(n) == <<n>>

(* SuryaOCREngine.__init__; _det_predictor and _rec_predictor are not set  *)
(* until _load_models sets them.                                           *)
SuryaOCREngine ==
    [_det_model |-> None, _rec_model |-> None, _det_processor |-> None,
     _rec_processor |-> None, _models_loaded |-> FALSE,
     _det_predictor |-> NoPredictor, _rec_predictor |-> NoPredictor]

(* What loading the Surya models does when it is attempted.                *)
LoadOutcomes ==
    {"ImportError", "DetectionPredictor raises", "RecognitionPredictor raises", "loaded"}

NotAttempted == "not attempted"

(* A variant of _load_models without the "if self._models_loaded: return"  *)
(* guard.                                                                  *)
_load_models_every_call(self, load, created) ==
    CASE load = "ImportError" ->
             [self |-> self, created |-> created, raised |-> TRUE, load |-> load]
      [] load = "DetectionPredictor raises" ->
             [self |-> self, created |-> created, raised |-> TRUE, load |-> load]
      [] load = "RecognitionPredictor raises" ->
             [self |-> [self EXCEPT !._det_predictor = Predictor(created + 1)],
              created |-> created + 1, raised |-> TRUE, load |-> load]
      [] OTHER ->
             [self |-> [self EXCEPT !._det_predictor = Predictor(created + 1),
                                    !._rec_predictor = Predictor(created + 2),
                                    !._models_loaded = TRUE],
              created |-> created + 2, raised |-> FALSE, load |-> load]

(* SuryaOCREngine._load_models on the object self, when an attempt to load *)
(* would end as load says and created predictor objects exist so far: the  *)
(* object afterwards, the predictor objects that exist afterwards, whether *)
(* the call raised, and what became of the load.  _models_loaded is set    *)
(* by the last statement only.                                             *)
_load_models(self, load, created) ==
    IF self._models_loaded
    THEN [self |-> self, created |-> created, raised |-> FALSE, load |-> NotAttempted]
    ELSE CASE load = "ImportError" ->
                  [self |-> self, created |-> created, raised |-> TRUE, load |-> load]
           [] load = "DetectionPredictor raises" ->
                  [self |-> self, created |-> created, raised |-> TRUE, load |-> load]
           [] load = "RecognitionPredictor raises" ->
                  [self |-> [self EXCEPT !._det_predictor = Predictor(created + 1)],
                   created |-> created + 1, raised |-> TRUE, load |-> load]
           [] OTHER ->
                  [self |-> [self EXCEPT !._det_predictor = Predictor(created + 1),
                                         !._rec_predictor = Predictor(created + 2),
                                         !._models_loaded = TRUE],
                   created |-> created + 2, raised |-> FALSE, load |-> load]

(* SuryaOCREngine.reset: the five assignments of the method.               *)
reset(self) ==
    [self EXCEPT !._det_model = None, !._rec_model = None, !._det_processor = None,
                 !._rec_processor = None, !._models_loaded = FALSE]

(* The engine objects of the process, numbered as they are constructed,    *)
(* the module global _engine (the number of the object it refers to, 0     *)
(* for None) and the number of predictor objects constructed so far.       *)
NoEngines == [_engine |-> 0, objects |-> <<>>, predictors |-> 0]

(* A variant of get_engine that constructs an engine on every call.        *)
get_engine_constructing(state) ==
    [state EXCEPT !.objects = Append(@, SuryaOCREngine),
                  !._engine = Len(state.objects) + 1]

(* get_engine: the state afterwards; the call returns its _engine.         *)
get_engine(state) ==
    IF state._engine = 0
    THEN [state EXCEPT !.objects = Append(@, SuryaOCREngine),
                       !._engine = Len(state.objects) + 1]
    ELSE state

(* reset_engine                                                            *)
reset_engine(state) ==
    LET released == IF state._engine # 0
                    THEN [state EXCEPT !.objects[state._engine] = reset(@)]
                    ELSE state
    IN  [released EXCEPT !._engine = 0]

-----------------------------------------------------------------------------
(* SpecEngineCalls: a sequence of get_engine, reset_engine, process and    *)
(* reset calls; process and reset are called on any engine object that a   *)
(* get_engine call has returned.  args lists the calls made, returned what *)
(* each gave back.                                                         *)

MaxCalls == 6

Call(op, self) == [op |-> op, self |-> self]

Return(value, load, raised) == [value |-> value, load |-> load, raised |-> raised]

CallImages == {<<Scan(<<TextLine(<<MEEM, DAL>>, Conf(HIGH_CONFIDENCE_THRESHOLD))>>)>>}

InitEngineCalls ==
    /\ pc = "calls"
    /\ args = <<>> /\ returned = <<>>
    /\ engine = NoEngines
    /\ images = <<>> /\ ocr_outcome = NoOutcome
    /\ file_paths = <<>> /\ results = <<>>
    /\ NormIdle /\ DictIdle /\ MergeIdle /\ PageIdle /\ DocIdle
    /\ cursor = 0 /\ config = DefaultConfig

CallGetEngine ==
    /\ Len(args) < MaxCalls
    /\ engine' = get_engine(engine)
    /\ args' = Append(args, Call("get_engine", 0))
    /\ returned' = Append(returned, Return(engine'._engine, NotAttempted, FALSE))
    /\ UNCHANGED <<pc, images, ocr_outcome, file_paths, results, normVars, dictVars,
                   mergeVars, pageVars, docVars, cursor, config>>

CallResetEngine ==
    /\ Len(args) < MaxCalls
    /\ engine' = reset_engine(engine)
    /\ args' = Append(args, Call("reset_engine", engine._engine))
    /\ returned' = Append(returned, Return(0, NotAttempted, FALSE))
    /\ UNCHANGED <<pc, images, ocr_outcome, file_paths, results, normVars, dictVars,
                   mergeVars, pageVars, docVars, cursor, config>>

(* engine.process(images): _load_models, then the recognition.             *)
CallProcess ==
    /\ Len(args) < MaxCalls
    /\ \E self \in 1..Len(engine.objects), load \in LoadOutcomes, imgs \in CallImages :
           LET loading == _load_models(engine.objects[self], load, engine.predictors)
           IN  /\ engine' = [engine EXCEPT !.objects[self] = loading.self,
                                           !.predictors = loading.created]
               /\ images' = imgs
               /\ ocr_outcome' = IF loading.raised
                                 THEN [raised |-> TRUE, error |-> load,
                                       page_results |-> <<>>]
                                 ELSE process(imgs)
               /\ args' = Append(args, Call("process", self))
               /\ returned' = Append(returned, Return(0, loading.load, loading.raised))
    /\ UNCHANGED <<pc, file_paths, results, normVars, dictVars, mergeVars, pageVars,
                   docVars, cursor, config>>

(* engine.reset()                                                          *)
CallReset ==
    /\ Len(args) < MaxCalls
    /\ \E self \in 1..Len(engine.objects) :
           /\ engine' = [engine EXCEPT !.objects[self] = reset(@)]
           /\ args' = Append(args, Call("reset", self))
           /\ returned' = Append(returned, Return(0, NotAttempted, FALSE))
    /\ UNCHANGED <<pc, images, ocr_outcome, file_paths, results, normVars, dictVars,
                   mergeVars, pageVars, docVars, cursor, config>>

NextEngineCalls == CallGetEngine \/ CallResetEngine \/ CallProcess \/ CallReset

SpecEngineCalls == InitEngineCalls /\ [][NextEngineCalls]_vars

-----------------------------------------------------------------------------
(* Claims about the engine singleton and its models.                       *)

(* The calls with the given name among the calls made so far.              *)
CallsOf(op) == {i \in 1..Len(args) : args[i].op = op}

(* The get_engine call before call j, if there is one.                     *)
IsPreviousGetEngine(i, j) ==
    /\ i \in CallsOf("get_engine") /\ i < j
    /\ \A k \in CallsOf("get_engine") : ~(i < k /\ k < j)

ResetEngineBetween(i, j) == \E k \in CallsOf("reset_engine") : i < k /\ k < j

(* C21: a get_engine call returns the engine object the previous           *)
(* get_engine call returned, unless reset_engine was called in between;    *)
(* then it returns an object that no earlier call returned, and at its     *)
(* return that object's models are not loaded.                             *)
C21_SingletonUntilReset ==
    /\ \A j \in CallsOf("get_engine") : \A i \in 1..Len(args) :
           IsPreviousGetEngine(i, j) =>
               IF ResetEngineBetween(i, j)
               THEN \A k \in CallsOf("get_engine") :
                        k < j => returned[k].value # returned[j].value
               ELSE returned[j].value = returned[i].value
    /\ Len(args) > 0 /\ Last(args).op = "get_engine"
       /\ (\E i \in 1..Len(args) :
               /\ IsPreviousGetEngine(i, Len(args))
               /\ ResetEngineBetween(i, Len(args)))
           => engine.objects[Last(returned).value] = SuryaOCREngine

(* get_engine returned an object, a process call loaded its models, a      *)
(* second get_engine returned the same object, and after reset_engine a    *)
(* third returned another, not loaded.                                     *)
C21_Witness ==
    /\ Len(args) = 5
    /\ args[1].op = "get_engine" /\ args[2].op = "process"
    /\ returned[2].load = "loaded"
    /\ args[3].op = "get_engine"
    /\ args[4].op = "reset_engine" /\ args[5].op = "get_engine"
    /\ returned[1].value = 1 /\ returned[3].value = 1 /\ returned[5].value = 2
    /\ ~engine.objects[2]._models_loaded

(* The process calls made on the engine object self.                       *)
ProcessCallsOn(self) == {i \in CallsOf("process") : args[i].self = self}

(* Call k released the models of self: self.reset(), or reset_engine()     *)
(* while _engine referred to self.                                         *)
Resets(k, self) == args[k].op \in {"reset", "reset_engine"} /\ args[k].self = self

(* An earlier process call of the reset-free run of call j loaded the      *)
(* models.                                                                 *)
LoadedEarlierInRun(self, j) ==
    \E i \in ProcessCallsOn(self) :
        /\ i < j
        /\ returned[i].load = "loaded"
        /\ \A k \in 1..Len(args) : i < k /\ k < j => ~Resets(k, self)

(* C26: a new engine has no models; models are loaded in process calls     *)
(* only; a process call attempts the load exactly when no earlier process  *)
(* call of its reset-free run has loaded the models, so that a run loads   *)
(* them at most once and a failed load is attempted again by the next      *)
(* call; the engine is marked loaded exactly from a successful load to the *)
(* next reset.                                                             *)
C26_LoadedOncePerRun ==
    /\ \A i \in 1..Len(args) :
           args[i].op # "process" => returned[i].load = NotAttempted
    /\ \A self \in 1..Len(engine.objects) :
           /\ \A j \in ProcessCallsOn(self) :
                  IF LoadedEarlierInRun(self, j)
                  THEN returned[j].load = NotAttempted /\ ~returned[j].raised
                  ELSE /\ returned[j].load \in LoadOutcomes
                       /\ returned[j].raised <=> returned[j].load # "loaded"
           /\ engine.objects[self]._models_loaded
                  <=> LoadedEarlierInRun(self, Len(args) + 1)
           /\ ProcessCallsOn(self) = {} => engine.objects[self] = SuryaOCREngine

(* On one engine: a load that failed, a load that succeeded, a process     *)
(* call that reused the models, a reset, and a load again.                 *)
C26_Witness ==
    /\ Len(args) = 6
    /\ args[1].op = "get_engine"
    /\ \A i \in 2..4 : args[i].op = "process" /\ args[i].self = 1
    /\ returned[2].load = "RecognitionPredictor raises"
    /\ returned[3].load = "loaded"
    /\ returned[4].load = NotAttempted
    /\ args[5].op = "reset" /\ args[5].self = 1
    /\ args[6].op = "process" /\ args[6].self = 1
    /\ returned[6].load = "loaded"

(* The engine object holds no model: every attribute that refers to a      *)
(* model or a predictor is None or not set.                                *)
HoldsNoModel(self) ==
    /\ self._det_model = None /\ self._rec_model = None
    /\ self._det_processor = None /\ self._rec_processor = None
    /\ self._det_predictor = NoPredictor /\ self._rec_predictor = NoPredictor

(* C27: when reset() has returned, the engine object it was called on      *)
(* holds no detection or recognition model and is marked not loaded.       *)
C27_ResetReleasesModels ==
    Len(args) > 0 /\ Last(args).op = "reset" =>
        /\ HoldsNoModel(engine.objects[Last(args).self])
        /\ ~engine.objects[Last(args).self]._models_loaded

-----------------------------------------------------------------------------
(* SpecDictionaryThreads: load_legal_dictionary called from several        *)
(* threads, and reset_dictionary.  The function takes no lock, so a thread *)
(* can be suspended between any two of its statements; args holds, for     *)
(* each thread, the line it is at, its local words and the calls it has    *)
(* made, returned the events so far.                                       *)

MaxThreads == 2

MaxThreadCalls == 2

MaxDictionaryResets == 1

ThreadDictionaryFiles == { MissingFile, File({<<ALEF, MEEM>>, <<HASH, DAL>>}) }

Thread(line, words, calls) == [line |-> line, words |-> words, calls |-> calls]

Event(event, thread, cache) == [event |-> event, thread |-> thread, cache |-> cache]

EventsOf(event) == {i \in 1..Len(returned) : returned[i].event = event}

InitDictionaryThreads ==
    /\ pc = "threads"
    /\ args = [t \in 1..MaxThreads |-> Thread("idle", {}, 0)]
    /\ returned = <<>>
    /\ dictionary_file \in ThreadDictionaryFiles
    /\ legal_dictionary = NoDictionary
    /\ entry = None /\ word = <<>> /\ dict_result = <<>>
    /\ config = DefaultConfig
    /\ NormIdle /\ MergeIdle /\ PageIdle /\ DocIdle /\ BatchIdle
    /\ cursor = 0

(* What no step of a thread and no reset changes.                          *)
ThreadFrame ==
    UNCHANGED <<pc, dictionary_file, entry, word, dict_result, normVars, mergeVars,
                pageVars, docVars, batchVars, cursor, config>>

(* A thread calls load_legal_dictionary.                                   *)
ThreadCalls ==
    /\ \E t \in 1..MaxThreads :
           /\ args[t].line = "idle" /\ args[t].calls < MaxThreadCalls
           /\ args' = [args EXCEPT ![t].line = "if _legal_dictionary is not None",
                                   ![t].calls = @ + 1]
    /\ UNCHANGED <<returned, legal_dictionary>>
    /\ ThreadFrame

(* "if _legal_dictionary is not None:"                                     *)
ThreadChecks ==
    /\ \E t \in 1..MaxThreads :
           /\ args[t].line = "if _legal_dictionary is not None"
           /\ args' = [args EXCEPT ![t].line = IF legal_dictionary.loaded
                                               THEN "return _legal_dictionary"
                                               ELSE "if not os.path.isfile"]
    /\ UNCHANGED <<returned, legal_dictionary>>
    /\ ThreadFrame

(* "if not os.path.isfile(dict_path)" and, when the file is there, the     *)
(* loop over its lines: the set the thread is about to store.              *)
ThreadReads ==
    /\ \E t \in 1..MaxThreads :
           /\ args[t].line = "if not os.path.isfile"
           /\ args' = [args EXCEPT ![t].line = "_legal_dictionary = words",
                                   ![t].words = LoadedTerms(dictionary_file)]
           /\ returned' = Append(returned,
                                 Event("built", t, Dictionary(LoadedTerms(dictionary_file))))
    /\ UNCHANGED legal_dictionary
    /\ ThreadFrame

(* "_legal_dictionary = set()" or "_legal_dictionary = words"              *)
ThreadStores ==
    /\ \E t \in 1..MaxThreads :
           /\ args[t].line = "_legal_dictionary = words"
           /\ legal_dictionary' = Dictionary(args[t].words)
           /\ args' = [args EXCEPT ![t].line = "return _legal_dictionary"]
           /\ returned' = Append(returned, Event("stored", t, legal_dictionary'))
    /\ ThreadFrame

(* "return _legal_dictionary": the global is read again.                   *)
ThreadReturns ==
    /\ \E t \in 1..MaxThreads :
           /\ args[t].line = "return _legal_dictionary"
           /\ args' = [args EXCEPT ![t].line = "idle", ![t].words = {}]
           /\ returned' = Append(returned, Event("returned", t, legal_dictionary))
    /\ UNCHANGED legal_dictionary
    /\ ThreadFrame

(* reset_dictionary()                                                      *)
CallResetDictionary ==
    /\ Cardinality(EventsOf("reset")) < MaxDictionaryResets
    /\ legal_dictionary' = NoDictionary
    /\ returned' = Append(returned, Event("reset", 0, NoDictionary))
    /\ UNCHANGED args
    /\ ThreadFrame

NextDictionaryThreads ==
    \/ ThreadCalls \/ ThreadChecks \/ ThreadReads \/ ThreadStores \/ ThreadReturns
    \/ CallResetDictionary

SpecDictionaryThreads == InitDictionaryThreads /\ [][NextDictionaryThreads]_vars

-----------------------------------------------------------------------------
(* Claims about the dictionary cache under concurrent calls.               *)

ResetBetweenEvents(i, j) == \E k \in EventsOf("reset") : i < k /\ k < j

(* C28: between two resets the dictionary is built at most once and the    *)
(* cache is set at most once, to the terms of the file (the empty set for  *)
(* a missing file), and every call that returns between the same two       *)
(* resets returns that one set, however the calls of the threads           *)
(* interleave.                                                             *)
C28_BuiltOnceBetweenResets ==
    /\ \A i, j \in EventsOf("built") : i < j => ResetBetweenEvents(i, j)
    /\ \A i, j \in EventsOf("stored") : i < j => ResetBetweenEvents(i, j)
    /\ \A i \in EventsOf("stored") :
           returned[i].cache = Dictionary(LoadedTerms(dictionary_file))
    /\ \A j \in EventsOf("returned") :
           /\ returned[j].cache.loaded
           /\ \E i \in EventsOf("stored") : i < j /\ ~ResetBetweenEvents(i, j)

-----------------------------------------------------------------------------
(* Supervisor: the workflow of one turn (Supervisor/graph.py and the       *)
(* nodes under Supervisor/nodes).  A text is "" or a name standing for a   *)
(* text that is not empty; the language model, the agents and the          *)
(* validator are the inputs of the steps.                                  *)

MAX_RETRIES == 2

MAX_CONVERSATION_TURNS == 20

AGENT_NAMES == <<"ocr", "summarize", "civil_law_rag", "case_doc_rag", "reason">>

VALID_INTENTS == AGENT_NAMES \o <<"multi", "off_topic">>

(* The keys of dispatch_agents.ADAPTER_REGISTRY.                           *)
ADAPTER_REGISTRY == {"ocr", "summarize", "civil_law_rag", "case_doc_rag", "reason"}

(* prompts.OFF_TOPIC_RESPONSE and the text that                            *)
(* prompts.FALLBACK_RESPONSE_TEMPLATE.format(feedback=...) gives: texts    *)
(* that are not empty.                                                     *)
OFF_TOPIC_RESPONSE == "OFF_TOPIC_RESPONSE"

FALLBACK_RESPONSE_TEMPLATE == "FALLBACK_RESPONSE_TEMPLATE"

(* value in values, for a list                                             *)
InList(value, values) == \E i \in 1..Len(values) : values[i] = value

(* main._default_state, with the MAX_RETRIES that config.py read from the  *)
(* environment.                                                            *)
_default_state(query, conversation_history, turn_count, max_retries) ==
    [judge_query          |-> query,
     conversation_history |-> conversation_history,
     turn_count           |-> turn_count,
     intent               |-> "",
     target_agents        |-> <<>>,
     classified_query     |-> "",
     agent_results        |-> <<>>,
     agent_errors         |-> {},
     validation_status    |-> "",
     validation_feedback  |-> "",
     retry_count          |-> 0,
     max_retries          |-> max_retries,
     merged_response      |-> "",
     final_response       |-> ""]

(* What structured_llm.invoke gives classify_intent_node: an exception, or *)
(* an IntentClassification whose intent and agent names are taken as       *)
(* strip().lower() leaves them.                                            *)
Classification(raised, intent, target_agents, rewritten_query) ==
    [raised |-> raised, intent |-> intent, target_agents |-> target_agents,
     rewritten_query |-> rewritten_query]

(* classify_intent.classify_intent_node                                    *)
classify_intent_node(state, result) ==
    IF result.raised
    THEN [state EXCEPT !.intent = "off_topic", !.target_agents = <<>>,
                       !.classified_query = state.judge_query]
    ELSE LET intent1 == IF InList(result.intent, VALID_INTENTS)
                        THEN result.intent ELSE "off_topic"
             IsAgent(a) == InList(a, AGENT_NAMES)
             agents1 == SelectSeq(result.target_agents, IsAgent)
             agents2 == IF InList(intent1, AGENT_NAMES) /\ ~InList(intent1, agents1)
                        THEN <<intent1>> ELSE agents1
             intent2 == IF intent1 = "multi" /\ agents2 = <<>>
                        THEN "off_topic" ELSE intent1
             agents3 == IF intent2 = "off_topic" THEN <<>> ELSE agents2
         IN [state EXCEPT !.intent = intent2, !.target_agents = agents3,
                          !.classified_query =
                              IF result.rewritten_query # ""
                              THEN result.rewritten_query ELSE state.judge_query]

(* graph.intent_router                                                     *)
intent_router(state) == IF state.intent = "off_topic" THEN "off_topic" ELSE "dispatch"

(* What becomes of one agent in dispatch_agents_node: adapter.invoke       *)
(* returns a result with a response, with an empty response or with an     *)
(* error, or the adapter raises.                                           *)
AgentOutcomes == {"response", "empty response", "error", "raises"}

(* The agent_results of dispatch_agents_node after the first k agents, as  *)
(* the list of the names and responses in the order the dict got them.     *)
RECURSIVE AgentResults(_, _, _)
AgentResults(target_agents, outcomes, k) ==
    IF k = 0 THEN <<>>
    ELSE LET earlier == AgentResults(target_agents, outcomes, k - 1)
             agent_name == target_agents[k]
         IN IF agent_name \in ADAPTER_REGISTRY
               /\ outcomes[k] \in {"response", "empty response"}
            THEN Append(earlier,
                        [name |-> agent_name,
                         response |-> IF outcomes[k] = "response"
                                      THEN "response" ELSE ""])
            ELSE earlier

(* dispatch_agents.dispatch_agents_node: outcomes[k] is what becomes of    *)
(* the k-th target agent.                                                  *)
dispatch_agents_node(state, outcomes) ==
    LET target_agents == state.target_agents
    IN [state EXCEPT
           !.agent_results = AgentResults(target_agents, outcomes, Len(target_agents)),
           !.agent_errors =
               {target_agents[k] : k \in {i \in 1..Len(target_agents) :
                    \/ target_agents[i] \notin ADAPTER_REGISTRY
                    \/ outcomes[i] \in {"error", "raises"}}}]

(* What llm.invoke gives merge_responses_node.                             *)
MergeOutcomes == {"content", "empty content", "raises"}

(* merge_responses.merge_responses_node                                    *)
merge_responses_node(state, llm) ==
    IF state.agent_results = <<>>
    THEN [state EXCEPT !.merged_response = "",
                       !.validation_status = "fail_completeness",
                       !.validation_feedback = "All agents failed"]
    ELSE IF Len(state.agent_results) = 1
    THEN [state EXCEPT !.merged_response = state.agent_results[1].response]
    ELSE [state EXCEPT !.merged_response =
              CASE llm = "content" -> "merged"
                [] llm = "empty content" -> ""
                [] llm = "raises" -> "concatenated"]

(* What structured_llm.invoke gives validate_output_node: an exception, or *)
(* a ValidationResult.                                                     *)
Validation(raised, overall_pass, hallucination_pass, relevance_pass, feedback) ==
    [raised |-> raised, overall_pass |-> overall_pass,
     hallucination_pass |-> hallucination_pass,
     relevance_pass |-> relevance_pass, feedback |-> feedback]

(* validate_output_node with a passing answer that is not handed on.       *)
validate_output_node_without_final_response(state, result) ==
    IF state.merged_response = ""
    THEN [state EXCEPT !.validation_status = "fail_completeness",
                       !.validation_feedback = "No response was generated to validate.",
                       !.retry_count = state.retry_count + 1]
    ELSE IF result.raised
    THEN [state EXCEPT !.validation_status = "pass",
                       !.validation_feedback = "Validation skipped due to error"]
    ELSE IF result.overall_pass
    THEN [state EXCEPT !.validation_status = "pass",
                       !.validation_feedback = ""]
    ELSE [state EXCEPT !.validation_status =
                           IF ~result.hallucination_pass THEN "fail_hallucination"
                           ELSE IF ~result.relevance_pass THEN "fail_relevance"
                           ELSE "fail_completeness",
                       !.validation_feedback = result.feedback,
                       !.retry_count = state.retry_count + 1]

(* validate_output.validate_output_node                                    *)
validate_output_node(state, result) ==
    IF state.merged_response = ""
    THEN [state EXCEPT !.validation_status = "fail_completeness",
                       !.validation_feedback = "No response was generated to validate.",
                       !.retry_count = state.retry_count + 1]
    ELSE IF result.raised
    THEN [state EXCEPT !.validation_status = "pass",
                       !.validation_feedback = "Validation skipped due to error",
                       !.final_response = state.merged_response]
    ELSE IF result.overall_pass
    THEN [state EXCEPT !.validation_status = "pass",
                       !.validation_feedback = "",
                       !.final_response = state.merged_response]
    ELSE [state EXCEPT !.validation_status =
                           IF ~result.hallucination_pass THEN "fail_hallucination"
                           ELSE IF ~result.relevance_pass THEN "fail_relevance"
                           ELSE "fail_completeness",
                       !.validation_feedback = result.feedback,
                       !.retry_count = state.retry_count + 1]

(* graph.validation_router                                                 *)
validation_router(state) ==
    IF state.validation_status = "pass" THEN "pass"
    ELSE IF state.retry_count < state.max_retries THEN "retry"
    ELSE "fallback"

(* off_topic.off_topic_response_node                                       *)
off_topic_response_node(state) ==
    [state EXCEPT !.final_response = OFF_TOPIC_RESPONSE,
                  !.merged_response = OFF_TOPIC_RESPONSE,
                  !.validation_status = "pass"]

(* fallback.fallback_response_node                                         *)
fallback_response_node(state) ==
    [state EXCEPT !.final_response = FALLBACK_RESPONSE_TEMPLATE,
                  !.validation_status = "fallback"]

(* One message of conversation_history.                                    *)
Message(role, content) == [role |-> role, content |-> content]

(* messages[-n:]                                                           *)
LastMessages(messages, n) ==
    IF Len(messages) > n
    THEN SubSeq(messages, Len(messages) - n + 1, Len(messages))
    ELSE messages

(* update_memory.update_memory_node                                        *)
update_memory_node(state) ==
    LET with_user == IF state.judge_query # ""
                     THEN Append(state.conversation_history,
                                 Message("user", state.judge_query))
                     ELSE state.conversation_history
        with_assistant == IF state.final_response # ""
                          THEN Append(with_user,
                                      Message("assistant", state.final_response))
                          ELSE with_user
    IN [state EXCEPT
           !.conversation_history =
               LastMessages(with_assistant, MAX_CONVERSATION_TURNS * 2),
           !.turn_count = state.turn_count + 1]

-----------------------------------------------------------------------------
(* SpecSupervisor: app.invoke(state) of the compiled graph, one node a     *)
(* step.  args is the SupervisorState, pc the node that runs next, and     *)
(* returned the nodes that have run, each with the validation_status it    *)
(* left.                                                                   *)

MaxRetriesTried == 2
MaxTurnCount == 1

Visit(node, state) == [node |-> node, status |-> state.validation_status]

VisitsOf(node) == {i \in 1..Len(returned) : returned[i].node = node}

JudgeQueries == {"", "query"}

ConversationHistories ==
    {<<>>, <<Message("user", "earlier query"), Message("assistant", "earlier answer")>>}

Classifications ==
    {Classification(TRUE, "", <<>>, "")}
    \cup {Classification(FALSE, intent, target_agents, rewritten_query) :
            intent \in {VALID_INTENTS[i] : i \in 1..Len(VALID_INTENTS)} \cup {"unknown"},
            target_agents \in {<<>>, <<"civil_law_rag">>,
                               <<"civil_law_rag", "reason">>, <<"judge">>},
            rewritten_query \in {"", "rewritten"}}

ValidationResults ==
    {Validation(TRUE, FALSE, FALSE, FALSE, "")}
    \cup {Validation(FALSE, overall_pass, hallucination_pass, relevance_pass, "feedback") :
            overall_pass \in BOOLEAN, hallucination_pass \in BOOLEAN,
            relevance_pass \in BOOLEAN}

InitSupervisor ==
    /\ pc = "classify_intent"
    /\ args \in {_default_state(query, conversation_history, turn_count, max_retries) :
                    query \in JudgeQueries,
                    conversation_history \in ConversationHistories,
                    turn_count \in 0..MaxTurnCount,
                    max_retries \in 0..MaxRetriesTried}
    /\ returned = <<>>
    /\ config = DefaultConfig
    /\ NormIdle /\ DictIdle /\ MergeIdle /\ PageIdle /\ DocIdle /\ BatchIdle
    /\ cursor = 0

(* What no node of the workflow changes.                                   *)
SupervisorFrame ==
    UNCHANGED <<normVars, dictVars, mergeVars, pageVars, docVars, batchVars,
                cursor, config>>

(* classify_intent, then the edges chosen by intent_router                 *)
ClassifyIntent ==
    /\ pc = "classify_intent"
    /\ \E result \in Classifications :
           LET state == classify_intent_node(args, result)
           IN /\ args' = state
              /\ returned' = Append(returned, Visit("classify_intent", state))
              /\ pc' = IF intent_router(state) = "dispatch"
                       THEN "dispatch_agents" ELSE "off_topic_response"
    /\ SupervisorFrame

(* dispatch_agents, then the edge to merge_responses                       *)
DispatchAgents ==
    /\ pc = "dispatch_agents"
    /\ \E outcomes \in [1..Len(args.target_agents) -> AgentOutcomes] :
           LET state == dispatch_agents_node(args, outcomes)
           IN /\ args' = state
              /\ returned' = Append(returned, Visit("dispatch_agents", state))
    /\ pc' = "merge_responses"
    /\ SupervisorFrame

(* merge_responses, then the edge to validate_output                       *)
MergeResponses ==
    /\ pc = "merge_responses"
    /\ \E llm \in MergeOutcomes :
           LET state == merge_responses_node(args, llm)
           IN /\ args' = state
              /\ returned' = Append(returned, Visit("merge_responses", state))
    /\ pc' = "validate_output"
    /\ SupervisorFrame

(* validate_output, then the edges chosen by validation_router             *)
ValidateOutput ==
    /\ pc = "validate_output"
    /\ \E result \in ValidationResults :
           LET state == validate_output_node(args, result)
               route == validation_router(state)
           IN /\ args' = state
              /\ returned' = Append(returned, Visit("validate_output", state))
              /\ pc' = CASE route = "pass" -> "update_memory"
                         [] route = "retry" -> "dispatch_agents"
                         [] route = "fallback" -> "fallback_response"
    /\ SupervisorFrame

(* off_topic_response, then the edge to update_memory                      *)
OffTopicResponse ==
    /\ pc = "off_topic_response"
    /\ args' = off_topic_response_node(args)
    /\ returned' = Append(returned, Visit("off_topic_response", args'))
    /\ pc' = "update_memory"
    /\ SupervisorFrame

(* fallback_response, then the edge to update_memory                       *)
FallbackResponse ==
    /\ pc = "fallback_response"
    /\ args' = fallback_response_node(args)
    /\ returned' = Append(returned, Visit("fallback_response", args'))
    /\ pc' = "update_memory"
    /\ SupervisorFrame

(* update_memory, then the edge to END                                     *)
UpdateMemory ==
    /\ pc = "update_memory"
    /\ args' = update_memory_node(args)
    /\ returned' = Append(returned, Visit("update_memory", args'))
    /\ pc' = "END"
    /\ SupervisorFrame

NextSupervisor ==
    \/ ClassifyIntent \/ DispatchAgents \/ MergeResponses \/ ValidateOutput
    \/ OffTopicResponse \/ FallbackResponse \/ UpdateMemory

SpecSupervisor == InitSupervisor /\ [][NextSupervisor]_vars

(* The graph runs the node that is next: a node that can run does run.     *)
SpecSupervisorFair == SpecSupervisor /\ WF_vars(NextSupervisor)

-----------------------------------------------------------------------------
(* Claims about the Supervisor workflow.                                   *)

Dispatches == Cardinality(VisitsOf("dispatch_agents"))

(* C29: retry_count never exceeds max_retries, and when validation_router  *)
(* routes to fallback_response the agents have been dispatched             *)
(* max_retries + 1 times: once, and max_retries times again.               *)
C29_FallbackAfterAllRetries ==
    /\ args.retry_count <= args.max_retries
    /\ pc = "fallback_response" => Dispatches = args.max_retries + 1

(* What the code does: the agents are dispatched max_retries times in      *)
(* all, and once when max_retries is 0.                                    *)
DispatchesOfTheCode ==
    LET most == IF args.max_retries = 0 THEN 1 ELSE args.max_retries
    IN /\ args.retry_count <= most
       /\ Dispatches <= most
       /\ pc = "fallback_response" => Dispatches = most /\ args.retry_count = most

(* The visits that give the turn its answer.                               *)
AnsweringVisits ==
    VisitsOf("off_topic_response") \cup VisitsOf("fallback_response")
    \cup {i \in VisitsOf("validate_output") : returned[i].status = "pass"}

(* C30: whatever the classifier, the agents, the merger and the validator  *)
(* answer or raise, the turn reaches END, within 3 steps for each dispatch *)
(* and 3 more; at END update_memory has run once, as the last node, after  *)
(* exactly one of off_topic_response, a passing validate_output and        *)
(* fallback_response, final_response is not empty, and turn_count has      *)
(* gone up by one, in the step of update_memory.                           *)
C30_TurnTerminatesWithAnswer ==
    /\ <>(pc = "END")
    /\ [](Len(returned) <= 3 * (args.max_retries + 1) + 3)
    /\ [](pc = "END" =>
            /\ Cardinality(VisitsOf("update_memory")) = 1
            /\ returned[Len(returned)].node = "update_memory"
            /\ Cardinality(AnsweringVisits) = 1
            /\ args.final_response # "")
    /\ [][args'.turn_count = IF pc = "update_memory"
                             THEN args.turn_count + 1 ELSE args.turn_count]_vars

(* A turn that ended with the answer of the second dispatch, let through   *)
(* by a validator that raised, after an agent had failed.                  *)
C30_Witness ==
    /\ pc = "END"
    /\ args.max_retries = MAX_RETRIES
    /\ Dispatches = 2
    /\ args.agent_errors # {}
    /\ args.validation_status = "pass"
    /\ args.validation_feedback = "Validation skipped due to error"
    /\ args.final_response = args.merged_response
    /\ args.turn_count = 1

=============================================================================
